---- MODULE Spec2Model ----
(***************************************************************************)
(* A model of the PHANGS post-processing pipeline:                         *)
(*   - PostProcessHandler (postprocessHandler.py): the master loop over    *)
(*     (target, product, configuration) triples, its public entry          *)
(*     points, and the filter setters that rebuild its lists;              *)
(*   - estimate_noise and signal_mask (casaMaskingRoutines.py);            *)
(*   - the mosaic routines (casaMosaicRoutines.py);                        *)
(*   - the driver script process_cubes.py.                                 *)
(* The image engine (casaCubeRoutines, casaFeatherRoutines, CASA tasks)    *)
(* and the key handler are collaborators outside the modelled sources.     *)
(***************************************************************************)
EXTENDS Integers, Sequences, FiniteSets, TLC

VARIABLES
    targets_list,           \* PostProcessHandler._targets_list
    line_products_list,     \* PostProcessHandler._line_products_list
    cont_products_list,     \* PostProcessHandler._cont_products_list
    interf_configs_list,    \* PostProcessHandler._interf_configs_list
    feather_configs_list,   \* PostProcessHandler._feather_configs_list
    dry_run,                \* PostProcessHandler._dry_run
    feather_method,         \* PostProcessHandler._feather_method
    linmos,                 \* key handler: the targets that are linear mosaics
    sd,                     \* key handler: the <<target, product>> with single dish data
    fs,                     \* the file system: path -> content
    op,                     \* the caller of the last _master_loop call
    args,                   \* the arguments of the last _master_loop call
    before,                 \* the file system when the last _master_loop call began
    result,                 \* the outcome of the last _master_loop call
    data,                   \* estimate_noise: the data vector (or None)
    mask,                   \* estimate_noise: the mask vector (or None)
    method,                 \* estimate_noise: the method
    niter,                  \* estimate_noise: the iterations (or None)
    noise,                  \* estimate_noise: what the call returned
    survivors,              \* estimate_noise: use_data at the start and after each iteration
    call,                   \* a routine of the masking or mosaic module, or the driver
                            \* script: its arguments and files
    ret,                    \* what that routine returned and the files it left
    kh,                     \* PostProcessHandler._kh (or None)
    filters,                \* PostProcessHandler._<kind>_first, _last, _skip, _only, by kind
    no_line,                \* PostProcessHandler._no_line
    no_cont,                \* PostProcessHandler._no_cont
    mosaics_list            \* PostProcessHandler._mosaics_list

pvars == <<targets_list, line_products_list, cont_products_list,
           interf_configs_list, feather_configs_list, dry_run, feather_method,
           linmos, sd, fs, op, args, before, result>>

nvars == <<data, mask, method, niter, noise, survivors>>

rvars == <<call, ret>>

fvars == <<kh, filters, no_line, no_cont, mosaics_list>>

vars == <<pvars, nvars, rvars, fvars>>

----------------------------------------------------------------------------
(* Bounds of the model.                                                    *)

\* The environments whose gates vary freely have at most MaxTargets targets.
MaxTargets == 1
\* The image engine raises at its MaxFailAt-th call of a pass at the latest,
\* if it raises at all.
MaxFailAt == 1
\* estimate_noise is given vectors of at most MaxLen elements, whose finite
\* elements are integers of 0..MaxValue.
MaxLen == 3
MaxValue == 2

----------------------------------------------------------------------------
(* Values.                                                                 *)

\* Python's None for a list-valued field, and a list.
NoneList == [none |-> TRUE, v |-> <<>>]
List(s) == [none |-> FALSE, v |-> s]

Range(s) == {s[i] : i \in DOMAIN s}

\* The twelve stage toggles of _master_loop, in the order of its stage blocks.
StageOrder ==
    <<"stage", "pbcorr", "round", "sd", "weight", "conv_for_mosaic",
      "align_for_mosaic", "linmos", "feather", "compress", "convert", "export">>

Stages == Range(StageOrder)

StageIndex(s) == CHOOSE i \in DOMAIN StageOrder : StageOrder[i] = s

----------------------------------------------------------------------------
(* The key handler's naming of files (a collaborator).                     *)

\* No file: what get_sd_filename returns for a target without single dish data.
NoFile == [target |-> 0, config |-> "None", product |-> "None",
           ext |-> "None", casaext |-> "None"]

\* keyHandler.get_cube_filename(target, config, product, ext, casa, casaext):
\* an identity determined by its arguments.
get_cube_filename(target, config, product, ext, casaext) ==
    [target |-> target, config |-> config, product |-> product,
     ext |-> ext, casaext |-> casaext]

\* keyHandler.get_sd_filename(target, product).
get_sd_filename(sdset, target, product) ==
    IF <<target, product>> \in sdset
    THEN [target |-> target, config |-> "sd", product |-> product,
          ext |-> "orig", casaext |-> ".fits"]
    ELSE NoFile

\* keyHandler.get_feather_config_for_interf_config(interf_config).
get_feather_config_for_interf_config(interf_config) ==
    interf_config \o "+tp"

\* A path: a directory and a file name (the code concatenates the two strings).
Path(dir, name) == [dir |-> dir, name |-> name]

----------------------------------------------------------------------------
(* The file name dictionary.                                               *)

\* PostProcessHandler._fname_dict: tag -> file name.
fname_dict(sdset, target, config, product) ==
    ("orig" :> get_cube_filename(target, config, product, "None", ".image")) @@
    ("pb" :> get_cube_filename(target, config, product, "None", ".pb")) @@
    ("orig_sd" :> get_sd_filename(sdset, target, product)) @@
    ("pbcorr" :> get_cube_filename(target, config, product, "pbcorr", ".image")) @@
    ("round" :> get_cube_filename(target, config, product, "round", ".image")) @@
    ("pbcorr_round" :> get_cube_filename(target, config, product, "pbcorr_round", ".image")) @@
    ("prepped_sd" :> get_cube_filename(target, config, product, "singledish", ".image")) @@
    ("trimmed" :> get_cube_filename(target, config, product, "trimmed", ".image")) @@
    ("pbcorr_trimmed" :> get_cube_filename(target, config, product, "pbcorr_trimmed", ".image")) @@
    ("trimmed_pb" :> get_cube_filename(target, config, product, "trimmed", ".pb")) @@
    ("trimmed_k" :> get_cube_filename(target, config, product, "trimmed_k", ".image")) @@
    ("trimmed_k_fits" :> get_cube_filename(target, config, product, "trimmed_k", ".fits")) @@
    ("pbcorr_trimmed_k" :> get_cube_filename(target, config, product, "pbcorr_trimmed_k", ".image")) @@
    ("pbcorr_trimmed_k_fits" :> get_cube_filename(target, config, product, "pbcorr_trimmed_k", ".fits")) @@
    ("trimmed_pb_fits" :> get_cube_filename(target, config, product, "trimmed_pb", ".fits"))

\* The tags each stage block of _master_loop looks up in fname_dict, by the
\* name of the local variable that receives the file name.
StageTags ==
    [stage |-> [orig |-> "orig", pb |-> "pb"],
     pbcorr |-> [infile |-> "orig", outfile |-> "pbcorr", pbfile |-> "pb"],
     round |-> [infile |-> "pbcorr", outfile |-> "pbcorr_round"],
     sd |-> [template |-> "pbcorr_round", infile |-> "orig_sd", outfile |-> "prepped_sd"],
     feather |-> [interf_file |-> "pbcorr_round", sd_file |-> "prepped_sd"],
     compress |-> [infile |-> "pbcorr_round", outfile |-> "pbcorr_trimmed"],
     compress_pb |-> [infile_pb |-> "pb", outfile_pb |-> "trimmed_pb",
                      template |-> "pbcorr_trimmed"],
     convert |-> [infile |-> "pbcorr_trimmed", outfile |-> "pbcorr_trimmed_k"],
     export |-> [infile |-> "pbcorr_trimmed_k_file", outfile |-> "pbcorr_trimmed_k_fits",
                 infile_pb |-> "trimmed_pb_file", outfile_pb |-> "trimmed_pb_fits"]]

\* The names _master_loop binds: its parameters and the locals it assigns.
\* Reading any other name raises NameError.
BoundNames ==
    {"self", "do_stage", "do_pbcorr", "do_round", "do_sd", "do_weight",
     "do_conv_for_mosaic", "do_align_for_mosaic", "do_linmos", "do_feather",
     "do_compress", "do_convert", "do_export",
     "this_target", "imaging_dir", "postprocess_dir", "this_product",
     "full_config_list", "config_type_list", "this_config", "ii", "config_type",
     "fname_dict", "has_imaging", "has_sd", "is_mosaic", "mosaic_parts",
     "this_fname", "indir", "outdir", "infile", "outfile", "pbfile", "tempdir",
     "template", "infile_list", "outfile_list", "pixel_padding", "target_res",
     "interf_file", "sd_file", "corresponding_feather_config",
     "infile_pb", "outfile_pb"}

\* The keyword parameters of casaMosaicRoutines.common_res_for_mosaic.
common_res_for_mosaic_params ==
    {"infile_list", "outfile_list", "target_res", "pixel_padding",
     "do_convolve", "overwrite"}

\* The keywords a routine accepts; a call with another keyword raises
\* TypeError. The routines of casaCubeRoutines and casaFeatherRoutines are
\* taken to accept the keywords they are called with.
Accepts(fn, kw) ==
    IF fn = "cmr.common_res_for_mosaic"
    THEN kw \subseteq common_res_for_mosaic_params
    ELSE TRUE

----------------------------------------------------------------------------
(* The image engine (a collaborator).                                      *)

NoPath == Path("None", NoFile)

RawContent(path) == [fn |-> "raw", of |-> path, args |-> <<>>]

\* A transform called with overwrite: it reads its input files and writes
\* its one output file, replacing it when overwrite is true. With an input
\* missing, or the output present and overwrite false, it returns without
\* side effect.
Transform(files, c) ==
    IF c.out = NoPath \/ ~(Range(c.ins) \subseteq DOMAIN files) THEN files
    ELSE IF c.out \in DOMAIN files /\ ~c.overwrite THEN files
    ELSE [x \in (DOMAIN files) \cup {c.out} |->
            IF x = c.out
            THEN [fn |-> c.fn, of |-> c.out,
                  args |-> [i \in DOMAIN c.ins |-> files[c.ins[i]]]]
            ELSE files[x]]

----------------------------------------------------------------------------
(* One pass of the master loop.  rs is the state of the pass: the info     *)
(* messages logged, the transform calls issued, the file system, and       *)
(* status "ok" until an exception is raised.  rp holds the arguments: the  *)
(* enabled toggles, _dry_run, _feather_method, and which transform call    *)
(* (if any) raises in the image engine.  cx holds the locals of the        *)
(* current triple.                                                         *)

Raise(rs, exc) == [rs EXCEPT !.status = exc]

\* The body of the block of `stage` is entered for the current triple.
Enter(rs, cx, stage) ==
    [rs EXCEPT !.entered = Append(@, [triple |-> cx.triple, stage |-> stage])]

\* logger.info(...) in the block of `stage`.
Info(rs, cx, stage) ==
    [rs EXCEPT !.log = Append(@, [triple |-> cx.triple, stage |-> stage])]

\* A call of a transform, outside dry-run. The call is recorded with whether
\* its input files were present when it was issued.
Invoke(rs, rp, c) ==
    LET rs1 == [rs EXCEPT !.calls =
                    Append(@, [c EXCEPT !.present = Range(c.ins) \subseteq DOMAIN rs.fs])]
    IN  IF ~Accepts(c.fn, c.kw) THEN Raise(rs1, "TypeError")
        ELSE IF Len(rs1.calls) = rp.failAt THEN Raise(rs1, "CollaboratorError")
        ELSE [rs1 EXCEPT !.fs = Transform(rs.fs, c)]

CallRec(cx, stage, fn, kw, ins, out, overwrite) ==
    [triple |-> cx.triple, stage |-> stage, fn |-> fn, kw |-> kw,
     ins |-> ins, out |-> out, overwrite |-> overwrite, present |-> FALSE]

\* Runs block b on rs unless an exception is already propagating.
Then(rs, b) == IF rs.status = "ok" THEN b ELSE rs

ImagingDir(f) == Path("imaging", f)
PostprocessDir(f) == Path("postprocess", f)
NoDir(f) == Path("", f)

\* Whether fname_dict[tag] succeeds for every tag a block looks up.
TagsDefined(cx, tags) ==
    \A k \in DOMAIN tags : tags[k] \in DOMAIN cx.fname_dict

\* Lines 580-594: one turn of the loop over [fname_dict['orig'], fname_dict['pb']].
StageFile(rs, rp, cx, tag) ==
    LET this_fname == cx.fname_dict[tag]
        rs1 == Info(rs, cx, "stage")
    IN  IF ~rp.dry
        THEN Invoke(rs1, rp,
                CallRec(cx, "stage", "ccr.copy_dropdeg",
                        {"infile", "outfile", "overwrite"},
                        <<ImagingDir(this_fname)>>, PostprocessDir(this_fname), TRUE))
        ELSE rs1

\* Lines 577-594: copy the data to the postprocessing directory.
BlockStage(rs, rp, cx) ==
    IF rs.status # "ok" THEN rs
    ELSE IF "stage" \in rp.tog /\ cx.config_type = "interf" /\ cx.has_imaging
    THEN IF ~TagsDefined(cx, StageTags.stage) THEN Raise(Enter(rs, cx, "stage"), "KeyError")
         ELSE LET rs1 == StageFile(Enter(rs, cx, "stage"), rp, cx, StageTags.stage.orig)
              IN  Then(rs1, StageFile(rs1, rp, cx, StageTags.stage.pb))
    ELSE rs

\* Lines 598-617: primary beam correction.
BlockPbcorr(rs, rp, cx) ==
    IF rs.status # "ok" THEN rs
    ELSE IF "pbcorr" \in rp.tog /\ cx.config_type = "interf" /\ cx.has_imaging
    THEN IF ~TagsDefined(cx, StageTags.pbcorr) THEN Raise(Enter(rs, cx, "pbcorr"), "KeyError")
         ELSE LET infile == cx.fname_dict[StageTags.pbcorr.infile]
                  outfile == cx.fname_dict[StageTags.pbcorr.outfile]
                  pbfile == cx.fname_dict[StageTags.pbcorr.pbfile]
                  rs1 == Info(Enter(rs, cx, "pbcorr"), cx, "pbcorr")
              IN  IF ~rp.dry
                  THEN Invoke(rs1, rp,
                          CallRec(cx, "pbcorr", "ccr.primary_beam_correct",
                                  {"infile", "outfile", "pbfile", "overwrite"},
                                  <<PostprocessDir(infile), PostprocessDir(pbfile)>>,
                                  PostprocessDir(outfile), TRUE))
                  ELSE rs1
    ELSE rs

\* A variant of BlockRound that convolves in place: it writes the file it reads.
BlockRound_inPlace(rs, rp, cx) ==
    IF rs.status # "ok" THEN rs
    ELSE IF "round" \in rp.tog /\ cx.config_type = "interf" /\ cx.has_imaging
    THEN LET infile == cx.fname_dict[StageTags.round.infile]
             rs1 == Info(Enter(rs, cx, "round"), cx, "round")
         IN  IF ~rp.dry
             THEN Invoke(rs1, rp,
                     CallRec(cx, "round", "ccr.convolve_to_round_beam",
                             {"infile", "outfile", "overwrite"},
                             <<PostprocessDir(infile)>>,
                             PostprocessDir(infile), TRUE))
             ELSE rs1
    ELSE rs

\* Lines 621-637: convolve to a round beam.
BlockRound(rs, rp, cx) ==
    IF rs.status # "ok" THEN rs
    ELSE IF "round" \in rp.tog /\ cx.config_type = "interf" /\ cx.has_imaging
    THEN IF ~TagsDefined(cx, StageTags.round) THEN Raise(Enter(rs, cx, "round"), "KeyError")
         ELSE LET infile == cx.fname_dict[StageTags.round.infile]
                  outfile == cx.fname_dict[StageTags.round.outfile]
                  rs1 == Info(Enter(rs, cx, "round"), cx, "round")
              IN  IF ~rp.dry
                  THEN Invoke(rs1, rp,
                          CallRec(cx, "round", "ccr.convolve_to_round_beam",
                                  {"infile", "outfile", "overwrite"},
                                  <<PostprocessDir(infile)>>,
                                  PostprocessDir(outfile), TRUE))
                  ELSE rs1
    ELSE rs

\* Lines 641-665: stage the single dish data for feathering.
BlockSd(rs, rp, cx) ==
    IF rs.status # "ok" THEN rs
    ELSE IF "sd" \in rp.tog /\ cx.config_type = "interf" /\ cx.has_sd /\ cx.has_imaging
    THEN IF ~TagsDefined(cx, StageTags.sd) THEN Raise(Enter(rs, cx, "sd"), "KeyError")
         ELSE LET template == cx.fname_dict[StageTags.sd.template]
                  infile == cx.fname_dict[StageTags.sd.infile]
                  outfile == cx.fname_dict[StageTags.sd.outfile]
                  rs1 == Info(Enter(rs, cx, "sd"), cx, "sd")
              IN  IF ~rp.dry
                  THEN Invoke(rs1, rp,
                          CallRec(cx, "sd", "cfr.prep_sd_for_feather",
                                  {"sdfile_in", "sdfile_out", "interf_file", "do_import",
                                   "do_dropdeg", "do_align", "do_checkunits", "overwrite"},
                                  <<NoDir(infile), PostprocessDir(template)>>,
                                  PostprocessDir(outfile), TRUE))
                  ELSE rs1
    ELSE rs

\* Lines 669-672: the weight stage. The condition reads is_part_of_mosaic
\* after do_weight and config_type (Python's `and` is evaluated left to
\* right and stops at the first false operand); the body is `pass`.
BlockWeight(rs, rp, cx) ==
    IF rs.status # "ok" THEN rs
    ELSE IF "weight" \in rp.tog /\ cx.config_type = "interf"
    THEN IF "is_part_of_mosaic" \notin BoundNames THEN Raise(rs, "NameError")
         ELSE Enter(rs, cx, "weight")
    ELSE rs

\* A variant of BlockConvForMosaic that does not test is_mosaic.
BlockConvForMosaic_anyTarget(rs, rp, cx) ==
    IF rs.status # "ok" THEN rs
    ELSE IF "conv_for_mosaic" \in rp.tog /\ cx.config_type = "interf"
    THEN LET rs1 == Info(Enter(rs, cx, "conv_for_mosaic"), cx, "conv_for_mosaic")
         IN  IF ~rp.dry
             THEN Invoke(rs1, rp,
                     CallRec(cx, "conv_for_mosaic", "cmr.common_res_for_mosaic",
                             {"infile_list", "outfile_list", "doconvolve",
                              "target_res", "pixel_padding", "overwrite"},
                             <<>>, NoPath, TRUE))
             ELSE rs1
    ELSE rs

\* Lines 676-711: convolve the parts of a linear mosaic to a common
\* resolution. The file lists are empty (TBD in the source).
BlockConvForMosaic(rs, rp, cx) ==
    IF rs.status # "ok" THEN rs
    ELSE IF "conv_for_mosaic" \in rp.tog /\ cx.config_type = "interf" /\ cx.is_mosaic
    THEN LET rs1 == Info(Enter(rs, cx, "conv_for_mosaic"), cx, "conv_for_mosaic")
         IN  IF ~rp.dry
             THEN Invoke(rs1, rp,
                     CallRec(cx, "conv_for_mosaic", "cmr.common_res_for_mosaic",
                             {"infile_list", "outfile_list", "doconvolve",
                              "target_res", "pixel_padding", "overwrite"},
                             <<>>, NoPath, TRUE))
             ELSE rs1
    ELSE rs

\* Lines 716-731: align the parts of a linear mosaic. Logs only (TBD in the
\* source).
BlockAlignForMosaic(rs, rp, cx) ==
    IF rs.status # "ok" THEN rs
    ELSE IF "align_for_mosaic" \in rp.tog /\ cx.config_type = "interf" /\ cx.is_mosaic
    THEN Info(Enter(rs, cx, "align_for_mosaic"), cx, "align_for_mosaic")
    ELSE rs

\* Lines 735-738: linear mosaicking; the body is `pass`.
BlockLinmos(rs, rp, cx) ==
    IF rs.status # "ok" THEN rs
    ELSE IF "linmos" \in rp.tog /\ cx.config_type = "interf" /\ cx.is_mosaic
    THEN Enter(rs, cx, "linmos")
    ELSE rs

\* Lines 774-787: the 'apodize' branch of the feather block; its debug
\* message reads apod_file before the dry-run test.
FeatherApodize(rs, rp, cx, interf_file, sd_file, outfile) ==
    IF rp.method = "apodize"
    THEN IF "apod_file" \notin BoundNames THEN Raise(rs, "NameError")
         ELSE IF ~rp.dry
              THEN Invoke(rs, rp,
                      CallRec(cx, "feather", "cfr.feather_two_cubes",
                              {"interf_file", "sd_file", "out_file", "do_blank",
                               "do_apodize", "apod_file", "apod_cutoff", "overwrite"},
                              <<PostprocessDir(interf_file), PostprocessDir(sd_file)>>,
                              PostprocessDir(outfile), TRUE))
              ELSE rs
    ELSE rs

\* Lines 789-800: the 'pbcorr' branch of the feather block.
FeatherPbcorr(rs, rp, cx, interf_file, sd_file, outfile) ==
    IF rp.method = "pbcorr"
    THEN IF ~rp.dry
         THEN Invoke(rs, rp,
                 CallRec(cx, "feather", "cfr.feather_two_cubes",
                         {"interf_file", "sd_file", "out_file", "do_blank",
                          "do_apodize", "apod_file", "apod_cutoff", "overwrite"},
                         <<PostprocessDir(interf_file), PostprocessDir(sd_file)>>,
                         PostprocessDir(outfile), TRUE))
         ELSE rs
    ELSE rs

\* Lines 742-800: feather the single dish and interferometer data.
BlockFeather(rs, rp, cx) ==
    IF rs.status # "ok" THEN rs
    ELSE IF "feather" \in rp.tog /\ cx.config_type = "interf" /\ cx.has_sd /\ cx.has_imaging
    THEN IF ~TagsDefined(cx, StageTags.feather) THEN Raise(Enter(rs, cx, "feather"), "KeyError")
         ELSE LET interf_file == cx.fname_dict[StageTags.feather.interf_file]
                  sd_file == cx.fname_dict[StageTags.feather.sd_file]
                  corresponding_feather_config ==
                      get_feather_config_for_interf_config(cx.this_config)
                  outfile == get_cube_filename(cx.this_target, corresponding_feather_config,
                                               cx.this_product, "pbcorr_round", ".image")
                  rs1 == Info(Enter(rs, cx, "feather"), cx, "feather")
                  rs2 == FeatherApodize(rs1, rp, cx, interf_file, sd_file, outfile)
              IN  Then(rs2, FeatherPbcorr(rs2, rp, cx, interf_file, sd_file, outfile))
    ELSE rs

\* Lines 806-821: trim the cube.
CompressCube(rs, rp, cx) ==
    IF ~TagsDefined(cx, StageTags.compress) THEN Raise(rs, "KeyError")
    ELSE LET infile == cx.fname_dict[StageTags.compress.infile]
             outfile == cx.fname_dict[StageTags.compress.outfile]
             rs1 == Info(rs, cx, "compress")
         IN  IF ~rp.dry
             THEN Invoke(rs1, rp,
                     CallRec(cx, "compress", "ccr.trim_cube",
                             {"infile", "outfile", "overwrite", "inplace", "min_pixperbeam"},
                             <<PostprocessDir(infile)>>, PostprocessDir(outfile), TRUE))
             ELSE rs1

\* Lines 823-839: align the primary beam image to the trimmed cube.
CompressPb(rs, rp, cx) ==
    IF ~TagsDefined(cx, StageTags.compress_pb) THEN Raise(rs, "KeyError")
    ELSE LET infile_pb == cx.fname_dict[StageTags.compress_pb.infile_pb]
             outfile_pb == cx.fname_dict[StageTags.compress_pb.outfile_pb]
             template == cx.fname_dict[StageTags.compress_pb.template]
             rs1 == Info(rs, cx, "compress")
         IN  IF ~rp.dry
             THEN Invoke(rs1, rp,
                     CallRec(cx, "compress", "ccr.align_to_target",
                             {"infile", "outfile", "template", "interpolation", "overwrite"},
                             <<PostprocessDir(infile_pb), PostprocessDir(template)>>,
                             PostprocessDir(outfile_pb), TRUE))
             ELSE rs1

\* Lines 804-839: compress; gated by its toggle alone.
BlockCompress(rs, rp, cx) ==
    IF rs.status # "ok" THEN rs
    ELSE IF "compress" \in rp.tog
    THEN LET rs1 == CompressCube(Enter(rs, cx, "compress"), rp, cx)
         IN  Then(rs1, CompressPb(rs1, rp, cx))
    ELSE rs

\* A variant of BlockConvert that does not test its toggle.
BlockConvert_ungated(rs, rp, cx) ==
    IF rs.status # "ok" THEN rs
    ELSE LET infile == cx.fname_dict[StageTags.convert.infile]
             outfile == cx.fname_dict[StageTags.convert.outfile]
             rs1 == Info(Enter(rs, cx, "convert"), cx, "convert")
         IN  IF ~rp.dry
             THEN Invoke(rs1, rp,
                     CallRec(cx, "convert", "ccr.convert_jytok",
                             {"infile", "outfile", "overwrite", "inplace"},
                             <<PostprocessDir(infile)>>, PostprocessDir(outfile), TRUE))
             ELSE rs1

\* Lines 843-860: convert from Jy/beam to Kelvin; gated by its toggle alone.
BlockConvert(rs, rp, cx) ==
    IF rs.status # "ok" THEN rs
    ELSE IF "convert" \in rp.tog
    THEN IF ~TagsDefined(cx, StageTags.convert) THEN Raise(Enter(rs, cx, "convert"), "KeyError")
         ELSE LET infile == cx.fname_dict[StageTags.convert.infile]
                  outfile == cx.fname_dict[StageTags.convert.outfile]
                  rs1 == Info(Enter(rs, cx, "convert"), cx, "convert")
              IN  IF ~rp.dry
                  THEN Invoke(rs1, rp,
                          CallRec(cx, "convert", "ccr.convert_jytok",
                                  {"infile", "outfile", "overwrite", "inplace"},
                                  <<PostprocessDir(infile)>>, PostprocessDir(outfile), TRUE))
                  ELSE rs1
    ELSE rs

\* Lines 880-903: the two export calls, cube then primary beam.
ExportCalls(rs, rp, cx, infile, outfile, infile_pb, outfile_pb) ==
    LET kw == {"infile", "outfile", "overwrite", "remove_cards", "add_cards",
               "add_history", "zap_history", "round_beam", "roundbeam_tol"}
        rs1 == Invoke(rs, rp,
                  CallRec(cx, "export", "ccr.export_and_cleanup", kw,
                          <<PostprocessDir(infile)>>, PostprocessDir(outfile), TRUE))
    IN  Then(rs1, Invoke(rs1, rp,
                    CallRec(cx, "export", "ccr.export_and_cleanup", kw,
                            <<PostprocessDir(infile_pb)>>, PostprocessDir(outfile_pb), TRUE)))

\* Lines 864-903: export to FITS; gated by its toggle alone. The four file
\* names are looked up before anything is logged.
BlockExport(rs, rp, cx) ==
    IF rs.status # "ok" THEN rs
    ELSE IF "export" \in rp.tog
    THEN IF ~TagsDefined(cx, StageTags.export) THEN Raise(Enter(rs, cx, "export"), "KeyError")
         ELSE LET infile == cx.fname_dict[StageTags.export.infile]
                  outfile == cx.fname_dict[StageTags.export.outfile]
                  infile_pb == cx.fname_dict[StageTags.export.infile_pb]
                  outfile_pb == cx.fname_dict[StageTags.export.outfile_pb]
                  rs1 == Info(Enter(rs, cx, "export"), cx, "export")
              IN  IF ~rp.dry
                  THEN ExportCalls(rs1, rp, cx, infile, outfile, infile_pb, outfile_pb)
                  ELSE rs1
    ELSE rs

----------------------------------------------------------------------------
(* The loop over triples.                                                  *)

\* A variant of StageBlocks with the convert block before the compress block.
StageBlocks_convertFirst(rs, rp, cx) ==
    BlockExport(
    BlockCompress(
    BlockConvert(
    BlockFeather(
    BlockLinmos(
    BlockAlignForMosaic(
    BlockConvForMosaic(
    BlockWeight(
    BlockSd(
    BlockRound(
    BlockPbcorr(
    BlockStage(rs, rp, cx),
        rp, cx), rp, cx), rp, cx), rp, cx), rp, cx), rp, cx), rp, cx),
        rp, cx), rp, cx), rp, cx), rp, cx)

\* Lines 574-903: the twelve stage blocks, in the order of the source (the
\* innermost application is the first block). An exception raised in one
\* block propagates: every later block finds a status other than "ok" and
\* does nothing.
StageBlocks(rs, rp, cx) ==
    BlockExport(
    BlockConvert(
    BlockCompress(
    BlockFeather(
    BlockLinmos(
    BlockAlignForMosaic(
    BlockConvForMosaic(
    BlockWeight(
    BlockSd(
    BlockRound(
    BlockPbcorr(
    BlockStage(rs, rp, cx),
        rp, cx), rp, cx), rp, cx), rp, cx), rp, cx), rp, cx), rp, cx),
        rp, cx), rp, cx), rp, cx), rp, cx)

\* Lines 557-563: the gates of a triple.
Gates(rs, h, tr) ==
    LET fd == fname_dict(h.sd, tr.target, tr.config, tr.product)
    IN  [triple |-> tr,
         this_target |-> tr.target, this_product |-> tr.product,
         this_config |-> tr.config, config_type |-> tr.config_type,
         fname_dict |-> fd,
         has_imaging |-> ImagingDir(fd["orig"]) \in DOMAIN rs.fs,
         has_sd |-> fd["orig_sd"] # NoFile,
         is_mosaic |-> tr.target \in h.linmos]

\* A variant of SkipTriple that lost the `not` before is_mosaic.
SkipTriple_lostNot(cx) ==
    cx.config_type = "feather" /\ cx.is_mosaic /\ ~cx.has_sd

\* Lines 570-572: a feather configuration of a target that has no single
\* dish data and is not a mosaic is skipped.
SkipTriple(cx) ==
    cx.config_type = "feather" /\ ~cx.is_mosaic /\ ~cx.has_sd

\* Lines 544-903: the body of the innermost loop, for one triple.
TripleBody(rs, rp, h, tr) ==
    LET cx == Gates(rs, h, tr)
        rs1 == [rs EXCEPT !.visited = Append(@, cx.triple)]
    IN  IF SkipTriple(cx) THEN rs1 ELSE StageBlocks(rs1, rp, cx)

\* PostProcessHandler._all_products: line products, then continuum products.
all_products(h) ==
    IF h.cont_products_list.none
    THEN IF h.line_products_list.none THEN <<>> ELSE h.line_products_list.v
    ELSE IF h.line_products_list.none THEN h.cont_products_list.v
    ELSE IF Len(h.cont_products_list.v) = 0 THEN h.line_products_list.v
    ELSE IF Len(h.line_products_list.v) = 0 THEN h.cont_products_list.v
    ELSE h.line_products_list.v \o h.cont_products_list.v

\* Lines 531-540: the interferometric configurations, then the feather ones.
full_config_list(h) ==
    [i \in 1..Len(h.interf_configs_list.v) |->
        [config |-> h.interf_configs_list.v[i], config_type |-> "interf"]]
    \o
    [i \in 1..Len(h.feather_configs_list.v) |->
        [config |-> h.feather_configs_list.v[i], config_type |-> "feather"]]

\* Lines 516-545: the triples in the order the three nested loops visit them.
Triples(h) ==
    LET ts == h.targets_list.v
        ps == all_products(h)
        cs == full_config_list(h)
        np == Len(ps)
        nc == Len(cs)
    IN  [i \in 1..(Len(ts) * np * nc) |->
            LET t == ((i - 1) \div (np * nc)) + 1
                p == (((i - 1) \div nc) % np) + 1
                c == ((i - 1) % nc) + 1
            IN  [target |-> ts[t], product |-> ps[p],
                 config |-> cs[c].config, config_type |-> cs[c].config_type]]

RECURSIVE LoopFrom(_, _, _, _, _)
LoopFrom(rs, rp, h, trs, i) ==
    IF i > Len(trs) \/ rs.status # "ok" THEN rs
    ELSE IF trs[i].product = "None" THEN LoopFrom(rs, rp, h, trs, i + 1)
    ELSE LoopFrom(TripleBody(rs, rp, h, trs[i]), rp, h, trs, i + 1)

NewPass(files) ==
    [log |-> <<>>, calls |-> <<>>, entered |-> <<>>, visited |-> <<>>,
     fs |-> files, status |-> "ok"]

\* PostProcessHandler._master_loop: one pass. The result has status "done"
\* after a normal return, "returned_none" after the early return of line
\* 514, or the name of the exception that ended the pass.
master_loop(h, rp, files) ==
    IF h.targets_list.none \/ h.interf_configs_list.none
    THEN [NewPass(files) EXCEPT !.status = "returned_none"]
    ELSE IF h.feather_configs_list.none
            /\ Len(h.targets_list.v) > 0
            /\ \E i \in DOMAIN all_products(h) : all_products(h)[i] # "None"
    THEN [NewPass(files) EXCEPT !.status = "TypeError"]
    ELSE IF h.feather_configs_list.none
    THEN [NewPass(files) EXCEPT !.status = "done"]
    ELSE LET rs == LoopFrom(NewPass(files), rp, h, Triples(h), 1)
         IN  IF rs.status = "ok" THEN [rs EXCEPT !.status = "done"] ELSE rs

----------------------------------------------------------------------------
(* The handler and its environment.                                        *)

\* The handler's fields and the key handler's answers, as master_loop reads them.
Handler ==
    [targets_list |-> targets_list,
     line_products_list |-> line_products_list,
     cont_products_list |-> cont_products_list,
     interf_configs_list |-> interf_configs_list,
     feather_configs_list |-> feather_configs_list,
     linmos |-> linmos, sd |-> sd]

\* The arguments of a pass.
Params(tog, failAt) ==
    [tog |-> tog, dry |-> dry_run, method |-> feather_method, failAt |-> failAt]

LineProducts == <<"co21">>
ContProducts == <<"cont">>
InterfConfigs == <<"12m">>
FeatherConfigs == <<"12m+tp">>

\* The file system before any post-processing: the imaged cubes and primary
\* beams in the imaging directory, the single dish files where they lie.
InitialFs(imaging, sdset) ==
    LET paths ==
            {ImagingDir(get_cube_filename(x[1], x[3], x[2], "None", ".image")) : x \in imaging}
            \cup {ImagingDir(get_cube_filename(x[1], x[3], x[2], "None", ".pb")) : x \in imaging}
            \cup {NoDir(get_sd_filename(sdset, x[1], x[2])) : x \in sdset}
    IN  [q \in paths |-> RawContent(q)]

Prefix(n) == [i \in 1..n |-> i]

\* The stages an earlier run of the pipeline may have completed, leaving
\* their products in the postprocess directory.
EarlierStages ==
    {"stage", "pbcorr", "round", "sd", "feather", "compress", "convert"}

\* Environments with every list present and n targets: the gates of each
\* target vary, and the postprocess directory is fresh or holds the
\* products of an earlier run.
GateEnvsOf(n) ==
    {[targets |-> List(Prefix(n)), lines |-> List(LineProducts),
      conts |-> List(<<>>), interfs |-> List(InterfConfigs),
      feathers |-> List(FeatherConfigs),
      linmos |-> m, sd |-> s \X Range(LineProducts),
      imaging |-> g \X Range(LineProducts) \X Range(InterfConfigs),
      earlier |-> t] :
        m \in SUBSET (1..n), s \in SUBSET (1..n), g \in SUBSET (1..n),
        t \in {{}, EarlierStages}}

GateEnvs == UNION {GateEnvsOf(n) : n \in 1..MaxTargets}

\* An environment with the given lists and two known targets: target 1 is
\* no mosaic and has single dish data, target 2 is a mosaic without single
\* dish data; both are imaged in every product.
ListEnv(t, l, c, i, f) ==
    [targets |-> t, lines |-> l, conts |-> c, interfs |-> i, feathers |-> f,
     linmos |-> {2}, sd |-> {1} \X (Range(LineProducts) \cup Range(ContProducts)),
     imaging |-> {1, 2} \X (Range(LineProducts) \cup Range(ContProducts))
                        \X Range(InterfConfigs),
     earlier |-> {}]

\* Environments in which the lists vary: absent (None), empty, or filled.
ListEnvs ==
    {ListEnv(t, l, c, List(InterfConfigs), List(FeatherConfigs)) :
        t \in {NoneList, List(<<>>), List(<<1>>), List(<<1, 2>>)},
        l \in {NoneList, List(<<>>), List(LineProducts)},
        c \in {NoneList, List(<<>>), List(ContProducts)}}
    \cup
    {ListEnv(List(<<1>>), List(LineProducts), List(ContProducts), i, f) :
        i \in {NoneList, List(InterfConfigs)},
        f \in {NoneList, List(FeatherConfigs)}}

\* The file system an environment starts with: the imaging, and what a live
\* pass with the stages of e.earlier made of it.
EarlierRun(e) ==
    LET h == [targets_list |-> e.targets, line_products_list |-> e.lines,
              cont_products_list |-> e.conts, interf_configs_list |-> e.interfs,
              feather_configs_list |-> e.feathers, linmos |-> e.linmos, sd |-> e.sd]
        raw == InitialFs(e.imaging, e.sd)
    IN  IF e.earlier = {} THEN raw
        ELSE master_loop(h, [tog |-> e.earlier, dry |-> FALSE,
                             method |-> "pbcorr", failAt |-> 0], raw).fs

\* No call of estimate_noise is under way.
NoiseIdle ==
    /\ data = NoneList /\ mask = NoneList /\ method = "mad"
    /\ niter = [none |-> TRUE, v |-> 0]
    /\ noise = [kind |-> "not called", num |-> 0, den |-> 1, root |-> FALSE]
    /\ survivors = <<>>

\* No routine of the masking or mosaic module is under way.
RoutinesIdle ==
    /\ call = [fn |-> "none"]
    /\ ret = [kind |-> "not called"]

\* The filters a setter stores for one kind of list; 0 stands for None in
\* first and last, which otherwise name a target (targets are 1, 2, ...).
Filter(first, last, skip, only) ==
    [first |-> first, last |-> last, skip |-> skip, only |-> only]

\* The defaults of the setters: first=None, last=None, skip=[], only=[].
NoFilter == Filter(0, 0, <<>>, <<>>)

\* The kinds of list the handler derives, by the prefix of the fields that
\* hold their filters (_targets_only, _mosaics_only, _lines_only, ...).
Kinds == {"targets", "mosaics", "lines", "cont", "interf_configs", "feather_configs"}

\* No key handler (None).
NoKeyHandler ==
    [none |-> TRUE,
     v |-> [targets |-> <<>>, linmos_targets |-> <<>>, line_products |-> <<>>,
            cont_products |-> <<>>, interf_configs |-> <<>>, feather_configs |-> <<>>]]

\* The handler's filters play no part.
FiltersIdle ==
    /\ kh = NoKeyHandler
    /\ filters = [k \in Kinds |-> NoFilter]
    /\ no_line = FALSE /\ no_cont = FALSE
    /\ mosaics_list = NoneList

NoResult ==
    [log |-> <<>>, calls |-> <<>>, entered |-> <<>>, visited |-> <<>>,
     fs |-> <<>>, status |-> "none"]

\* PostProcessHandler.__init__ (lines 24-60) with a key handler: the lists
\* are built from the key handler, the feather method is 'pbcorr'.
Init ==
    \E e \in GateEnvs \cup ListEnvs, d \in BOOLEAN :
        /\ targets_list = e.targets
        /\ line_products_list = e.lines
        /\ cont_products_list = e.conts
        /\ interf_configs_list = e.interfs
        /\ feather_configs_list = e.feathers
        /\ linmos = e.linmos
        /\ sd = e.sd
        /\ fs = EarlierRun(e)
        /\ dry_run = d
        /\ feather_method = "pbcorr"
        /\ op = "init"
        /\ args = [tog |-> {}, dry |-> d, method |-> "pbcorr", failAt |-> 0]
        /\ before = fs
        /\ result = NoResult
        /\ NoiseIdle
        /\ RoutinesIdle
        /\ FiltersIdle

----------------------------------------------------------------------------
(* The operations.                                                         *)

\* PostProcessHandler.set_dry_run (lines 192-198).
set_dry_run(d) ==
    /\ dry_run' = d
    /\ UNCHANGED <<targets_list, line_products_list, cont_products_list,
                   interf_configs_list, feather_configs_list, feather_method,
                   linmos, sd, fs, op, args, before, result>>
    /\ UNCHANGED <<nvars, rvars, fvars>>

FeatherMethods == {"pbcorr", "apodize", "Apodize", "nearest"}

Lower(m) == IF m = "Apodize" THEN "apodize" ELSE m

\* PostProcessHandler.set_feather_method (lines 209-221): the method is
\* compared in lower case and stored as given.
set_feather_method(m) ==
    /\ feather_method' = IF Lower(m) \notin {"pbcorr", "apodize"} THEN feather_method ELSE m
    /\ UNCHANGED <<targets_list, line_products_list, cont_products_list,
                   interf_configs_list, feather_configs_list, dry_run,
                   linmos, sd, fs, op, args, before, result>>
    /\ UNCHANGED <<nvars, rvars, fvars>>

\* A call of _master_loop with the toggles of tog enabled, made by `caller`.
\* Its arguments, and the file system it found, are remembered.
Pass(caller, tog, failAt) ==
    /\ LET r == master_loop(Handler, Params(tog, failAt), fs)
       IN  /\ result' = r
           /\ fs' = r.fs
    /\ op' = caller
    /\ args' = Params(tog, failAt)
    /\ before' = fs
    /\ UNCHANGED <<targets_list, line_products_list, cont_products_list,
                   interf_configs_list, feather_configs_list, dry_run,
                   feather_method, linmos, sd>>
    /\ UNCHANGED <<nvars, rvars, fvars>>

\* The first pass of a behaviour.
FirstPass(caller, tog, failAt) ==
    op = "init" /\ Pass(caller, tog, failAt)

\* The toggle sets a direct call of _master_loop is given: at most two enabled.
ToggleSets == {{}} \cup {{a, b} : a, b \in Stages}

\* PostProcessHandler._master_loop (lines 489-905).
MasterLoop == \E tog \in ToggleSets, k \in 0..MaxFailAt : FirstPass("_master_loop", tog, k)

\* The public entry points (lines 911-998).
stage_interferometer_data == \E k \in 0..MaxFailAt : FirstPass("stage_interferometer_data", {"stage"}, k)
primary_beam_correct == \E k \in 0..MaxFailAt : FirstPass("primary_beam_correct", {"pbcorr"}, k)
convolve_to_round_beam == \E k \in 0..MaxFailAt : FirstPass("convolve_to_round_beam", {"round"}, k)
stage_sd_data == \E k \in 0..MaxFailAt : FirstPass("stage_sd_data", {"sd"}, k)
feather == \E k \in 0..MaxFailAt : FirstPass("feather", {"feather"}, k)
compress == \E k \in 0..MaxFailAt : FirstPass("compress", {"compress"}, k)
convert == \E k \in 0..MaxFailAt : FirstPass("convert", {"convert"}, k)
export == \E k \in 0..MaxFailAt : FirstPass("export", {"export"}, k)

\* Re-running as recovery: the last call is made again, with the same
\* toggles, on the file system the earlier calls left. The image engine
\* raises where it did before, or not at all.
Rerun == op # "init" /\ \E k \in {0, args.failAt} : Pass(op, args.tog, k)

\* The handler is configured before its first pass.
SetDryRun == op = "init" /\ \E d \in BOOLEAN : set_dry_run(d)
SetFeatherMethod == op = "init" /\ \E m \in FeatherMethods : set_feather_method(m)

Next ==
    \/ SetDryRun
    \/ SetFeatherMethod
    \/ MasterLoop
    \/ stage_interferometer_data
    \/ primary_beam_correct
    \/ convolve_to_round_beam
    \/ stage_sd_data
    \/ feather
    \/ compress
    \/ convert
    \/ export
    \/ Rerun

Spec == Init /\ [][Next]_vars

----------------------------------------------------------------------------
(* casaMaskingRoutines: noise estimation.  A vector is a sequence of       *)
(* elements [fin, v]: a finite element of integer value v, or a non-finite *)
(* one (NaN or infinity).  A mask is a sequence of booleans.                *)

NotANumber == [fin |-> FALSE, v |-> 0]
Finite(x) == [fin |-> TRUE, v |-> x]

NoIter == [none |-> TRUE, v |-> 0]
Iter(n) == [none |-> FALSE, v |-> n]

\* What estimate_noise returns: None, NaN, or a number.  The number is
\* num/den, or its square root when root is set.
ReturnNone == [kind |-> "None", num |-> 0, den |-> 1, root |-> FALSE]
ReturnNaN == [kind |-> "NaN", num |-> 0, den |-> 1, root |-> FALSE]
ReturnValue(num, den, root) ==
    [kind |-> "value", num |-> num, den |-> den, root |-> root]

\* niter when the caller gives None.
DefaultNiter == 5
\* The scale between a median absolute deviation and sigma, 0.6745, in
\* ten-thousandths.
MadScale == 6745

valid_methods == {"std", "mad", "chauv", "chauvmad"}

Abs(x) == IF x < 0 THEN -x ELSE x

RECURSIVE np_sum(_)
np_sum(s) == IF s = <<>> THEN 0 ELSE Head(s) + np_sum(Tail(s))

Squares(s) == [i \in DOMAIN s |-> s[i] * s[i]]

\* np.std: the population standard deviation, the square root of
\* (N*sum(x^2) - sum(x)^2) / N^2.
np_std(s) ==
    LET n == Len(s)
    IN  ReturnValue(n * np_sum(Squares(s)) - np_sum(s) * np_sum(s), n * n, TRUE)

\* Twice np.median: the middle element of the sorted vector, or the mean of
\* the two middle ones.
median2(s) ==
    LET t == SortSeq(s, LAMBDA a, b : a < b)
        n == Len(s)
    IN  IF n % 2 = 1 THEN 2 * t[(n + 1) \div 2]
        ELSE t[n \div 2] + t[n \div 2 + 1]

\* mad(data, as_sigma): the median of the absolute deviations from the
\* median, divided by 0.6745 when as_sigma.  Deviations are kept doubled and
\* their median doubled again, hence the 4.
mad(s, as_sigma) ==
    LET this_med2 == median2(s)
        this_dev2 == [i \in DOMAIN s |-> Abs(2 * s[i] - this_med2)]
        this_mad4 == median2(this_dev2)
    IN  IF as_sigma THEN ReturnValue(this_mad4 * 10000, 4 * MadScale, FALSE)
        ELSE ReturnValue(this_mad4, 4, FALSE)

\* data[use_mask]: the elements the mask keeps, in order.
RECURSIVE Index(_, _)
Index(s, keep) ==
    IF s = <<>> THEN <<>>
    ELSE (IF Head(keep) THEN <<Head(s)>> ELSE <<>>) \o Index(Tail(s), Tail(keep))

\* The deviation z, in thousandths of sigma, at which erfc(z/sqrt(2)) equals
\* Chauvenet's criterion 1/(2n).
ChauvenetZ(n) ==
    CASE n = 1 -> 674
      [] n = 2 -> 1150
      [] n = 3 -> 1383
      [] n = 4 -> 1534
      [] n = 5 -> 1645
      [] n = 6 -> 1732
      [] OTHER -> 1803

\* A variant of Keeps that keeps every sample when the dispersion is zero.
Keeps_zeroKeepsAll(s, meth, x) ==
    LET n == Len(s)
        d == Abs(n * x - np_sum(s))
    IN  IF meth = "chauv"
        THEN LET v == np_std(s).num
             IN  v = 0 \/ d * d * 1000000 < ChauvenetZ(n) * ChauvenetZ(n) * v
        ELSE LET m == mad(s, TRUE)
             IN  m.num = 0 \/ d * m.den * 1000 < ChauvenetZ(n) * n * m.num

\* keep = this_prob > chauv_crit for the element x of use_data: its
\* deviation from the mean, in units of this_std, is below ChauvenetZ.  With
\* this_std = 0 the deviation is NaN or infinite and the comparison fails.
Keeps(s, meth, x) ==
    LET n == Len(s)
        d == Abs(n * x - np_sum(s))
    IN  IF meth = "chauv"
        THEN LET v == np_std(s).num
             IN  v # 0 /\ d * d * 1000000 < ChauvenetZ(n) * ChauvenetZ(n) * v
        ELSE LET m == mad(s, TRUE)
             IN  m.num # 0 /\ d * m.den * 1000 < ChauvenetZ(n) * n * m.num

\* The loop of estimate_noise for 'chauv' and 'chauvmad', with ii
\* iterations left.
\* The loop, with ii iterations left and `seen` the values use_data has
\* taken so far: what it returns, and the values use_data takes.
RECURSIVE ChauvenetLoop(_, _, _, _)
ChauvenetLoop(use_data, meth, ii, seen) ==
    IF ii <= 0
    THEN [result |-> np_std(use_data), history |-> Append(seen, use_data)]
    ELSE LET keep == [i \in DOMAIN use_data |-> Keeps(use_data, meth, use_data[i])]
         IN  IF \A i \in DOMAIN keep : ~keep[i]
             THEN [result |-> ReturnNaN, history |-> Append(seen, use_data)]
             ELSE ChauvenetLoop(Index(use_data, keep), meth, ii - 1,
                                Append(seen, use_data))

Chauvenet(use_data, meth, ii) == ChauvenetLoop(use_data, meth, ii, <<>>).result

Values(s) == [i \in DOMAIN s |-> s[i].v]

\* A variant of estimate_noise that lets an empty selection through to the
\* estimator, which then sees no deviation at all.
estimate_noise_noEmptyCheck(d, m, meth, it) ==
    IF d.none THEN ReturnNone
    ELSE IF ~m.none /\ Len(m.v) # Len(d.v) THEN ReturnNone
    ELSE IF meth \notin valid_methods THEN ReturnNone
    ELSE ReturnValue(0, 1, TRUE)

estimate_noise(d, m, meth, it) ==
    IF d.none THEN ReturnNone
    ELSE IF ~m.none /\ Len(m.v) # Len(d.v) THEN ReturnNone
    ELSE
    LET n == IF it.none THEN DefaultNiter ELSE it.v
        use_mask == [i \in DOMAIN d.v |-> (m.none \/ m.v[i]) /\ d.v[i].fin]
        use_data == Index(Values(d.v), use_mask)
    IN  IF meth \notin valid_methods THEN ReturnNone
        ELSE IF \A i \in DOMAIN use_mask : ~use_mask[i] THEN ReturnNaN
        ELSE IF meth = "std" THEN np_std(use_data)
        ELSE IF meth = "mad" THEN mad(use_data, TRUE)
        ELSE Chauvenet(use_data, meth, n)

\* The values use_data takes in a call of estimate_noise: none when the call
\* returns before use_data is assigned, one for 'std' and 'mad', and one more
\* for each iteration of the loop that keeps a sample.
use_data_history(d, m, meth, it) ==
    IF d.none \/ (~m.none /\ Len(m.v) # Len(d.v)) \/ meth \notin valid_methods
    THEN <<>>
    ELSE
    LET n == IF it.none THEN DefaultNiter ELSE it.v
        use_mask == [i \in DOMAIN d.v |-> (m.none \/ m.v[i]) /\ d.v[i].fin]
        use_data == Index(Values(d.v), use_mask)
    IN  IF \A i \in DOMAIN use_mask : ~use_mask[i] THEN <<>>
        ELSE IF meth \in {"std", "mad"} THEN <<use_data>>
        ELSE ChauvenetLoop(use_data, meth, n, <<>>).history

\* The vectors, masks, methods and iteration counts estimate_noise is given.
Elements == {NotANumber} \cup {Finite(x) : x \in 0..MaxValue}
Vectors == UNION {[1..n -> Elements] : n \in 0..MaxLen}
Masks == UNION {[1..n -> BOOLEAN] : n \in 0..MaxLen}
Methods == valid_methods \cup {"median"}
Iters == {NoIter, Iter(0), Iter(1), Iter(2)}

NotCalled == [kind |-> "not called", num |-> 0, den |-> 1, root |-> FALSE]

\* The handler plays no part in a call of estimate_noise.
HandlerIdle ==
    /\ targets_list = NoneList /\ line_products_list = NoneList
    /\ cont_products_list = NoneList /\ interf_configs_list = NoneList
    /\ feather_configs_list = NoneList
    /\ dry_run = FALSE /\ feather_method = "pbcorr"
    /\ linmos = {} /\ sd = {} /\ fs = <<>>
    /\ op = "init"
    /\ args = [tog |-> {}, dry |-> FALSE, method |-> "pbcorr", failAt |-> 0]
    /\ before = <<>> /\ result = NoResult
    /\ FiltersIdle

InitNoise ==
    /\ HandlerIdle
    /\ RoutinesIdle
    /\ data \in {NoneList} \cup {List(s) : s \in Vectors}
    /\ mask \in {NoneList} \cup {List(s) : s \in Masks}
    /\ method \in Methods
    /\ niter \in Iters
    /\ noise = NotCalled
    /\ survivors = <<>>

\* A call estimate_noise(data, mask, method, niter).
EstimateNoise ==
    /\ noise = NotCalled
    /\ noise' = estimate_noise(data, mask, method, niter)
    /\ survivors' = use_data_history(data, mask, method, niter)
    /\ UNCHANGED <<data, mask, method, niter>>
    /\ UNCHANGED <<pvars, rvars, fvars>>

NextNoise == EstimateNoise

SpecNoise == InitNoise /\ [][NextNoise]_vars

----------------------------------------------------------------------------
(* casaMaskingRoutines: signal_mask.  A cube is a sequence over pixels of  *)
(* spectra, a spectrum a sequence over channels; values are in units of    *)
(* the noise.  A mask has the cube's shape and boolean elements.           *)

\* Cubes have at most MaxChannels channels.
MaxChannels == 4

\* The names casaMaskingRoutines binds at module level: its imports (lines
\* 8-25) and its functions.
MaskingModuleNames ==
    {"os", "np", "erfc", "pyfits", "glob", "logging", "logger", "au", "casa",
     "pipeVer", "mad", "estimate_noise", "noise_for_cube", "noise_spectrum",
     "noise_map", "signal_mask", "apply_additional_mask", "import_and_align_mask"}

\* The names signal_mask reads without the module binding them: they
\* resolve only if the namespace the code is loaded into supplies them.
FreeNames == {"stat_clean_cube", "imhead", "ndimage"}

NChan(m) == IF m = <<>> THEN 0 ELSE Len(m[1])

\* np.roll(m, k, axis=spec_axis): the element of channel c moves to channel
\* c + k, wrapping around.
Roll(m, k) ==
    [x \in DOMAIN m |->
        [c \in DOMAIN m[x] |-> m[x][((c - 1 - k) % NChan(m)) + 1]]]

\* Elementwise combinations of boolean arrays.
Or(a, b) == [x \in DOMAIN a |-> [c \in DOMAIN a[x] |-> a[x][c] \/ b[x][c]]]
And(a, b) == [x \in DOMAIN a |-> [c \in DOMAIN a[x] |-> a[x][c] /\ b[x][c]]]

\* cube > thresh, or np.abs(cube) > thresh.
Above(cube, thresh, absolute) ==
    [x \in DOMAIN cube |->
        [c \in DOMAIN cube[x] |->
            IF absolute THEN Abs(cube[x][c]) > thresh ELSE cube[x][c] > thresh]]

\* (m + np.roll(m, 1) + np.roll(m, -1)) >= 1
Rolled(m) == Or(m, Or(Roll(m, 1), Roll(m, -1)))

\* One step of scipy.ndimage.binary_dilation with the default structure
\* (the neighbours along each axis, nothing beyond the border): elements
\* where msk is false keep their value.
DilateOnce(m, msk) ==
    [x \in DOMAIN m |->
        [c \in DOMAIN m[x] |->
            IF ~msk[x][c] THEN m[x][c]
            ELSE \/ m[x][c]
                 \/ (c > 1 /\ m[x][c - 1])
                 \/ (c < NChan(m) /\ m[x][c + 1])
                 \/ (x > 1 /\ m[x - 1][c])
                 \/ (x < Len(m) /\ m[x + 1][c])]]

\* ndimage.binary_dilation(m, mask=msk, iterations=-1): repeated until
\* nothing changes.
RECURSIVE binary_dilation(_, _)
binary_dilation(m, msk) ==
    LET next == DilateOnce(m, msk)
    IN  IF next = m THEN m ELSE binary_dilation(next, msk)

NoMask == <<>>

\* What a call of signal_mask leaves: how it ended, the mask file, whether
\* the previous mask was read, and the operation it applied.
MaskOutcome(kind, mask_file, read_old, operation) ==
    [kind |-> kind, mask_file |-> mask_file, read_old |-> read_old,
     operation |-> operation]

\* A variant of FallBack that keeps the operation it is given.
FallBack_keeps(operation, has_old) == operation

\* Lines 232-240: AND and OR become NEW when there is no previous mask.
FallBack(operation, has_old) ==
    IF operation \in {"AND", "OR"} /\ ~has_old THEN "NEW" ELSE operation

\* signal_mask(cube_root, operation, high_snr, low_snr, absolute), with the
\* files under cube_root and the names the namespace supplies in c.  Lines
\* 280-283 read old_mask, which is bound only if the previous mask was read.
signal_mask(c) ==
    IF ~c.has_image THEN MaskOutcome("returned", c.old_mask, FALSE, c.operation)
    ELSE
    LET has_old == c.old_mask # NoMask
        read_old == c.operation \in {"AND", "OR"} /\ has_old
        operation == FallBack(c.operation, has_old)
        bound == MaskingModuleNames \cup c.namespace
    IN  IF "stat_clean_cube" \notin bound \/ "imhead" \notin bound
        THEN MaskOutcome("NameError", c.old_mask, read_old, operation)
        ELSE
        LET hi_thresh == c.high_snr * c.rms
            low_thresh == c.low_snr * c.rms
            hi_mask == Above(c.cube, hi_thresh, c.absolute)
            low_mask == Above(c.cube, low_thresh, c.absolute)
            rolled_low_mask == Rolled(low_mask)
        IN  IF c.high_snr > c.low_snr /\ "ndimage" \notin bound
            THEN MaskOutcome("NameError", c.old_mask, read_old, operation)
            ELSE
            LET new_mask == IF c.high_snr > c.low_snr
                            THEN binary_dilation(hi_mask, rolled_low_mask)
                            ELSE Rolled(hi_mask)
                final == CASE operation = "AND" -> And(new_mask, c.old_mask)
                           [] operation = "OR" -> Or(new_mask, c.old_mask)
                           [] OTHER -> new_mask
            IN  IF operation \in {"AND", "OR"} /\ ~has_old
                THEN MaskOutcome("NameError", c.old_mask, read_old, operation)
                ELSE MaskOutcome("written", final, read_old, operation)

\* signal_mask's defaults for high_snr and low_snr.
DefaultHighSnr == 4
DefaultLowSnr == 2

\* The cubes signal_mask is given: one pixel with up to MaxChannels
\* channels, or two pixels with two channels; values below the low
\* threshold, between the thresholds, and beyond the high one on either side.
CubeValues == {-5, 0, 3, 5}
Cubes ==
    {<<s>> : s \in UNION {[1..n -> CubeValues] : n \in 1..MaxChannels}}
    \cup [1..2 -> [1..2 -> CubeValues]]

\* A previous mask of the cube's shape: the first channel only.
FirstChannel(cube) == [x \in DOMAIN cube |-> [c \in DOMAIN cube[x] |-> c = 1]]

SignalMaskCalls ==
    {[fn |-> "signal_mask", cube |-> cube, has_image |-> i, old_mask |-> o,
      operation |-> p, high_snr |-> DefaultHighSnr, low_snr |-> l,
      absolute |-> a, rms |-> 1, namespace |-> n] :
        cube \in Cubes, i \in BOOLEAN, o \in {"none", "first"},
        p \in {"AND", "OR", "NEW"}, l \in {DefaultLowSnr, DefaultHighSnr},
        a \in BOOLEAN,
        n \in {{}, {"stat_clean_cube", "imhead"}, FreeNames}}

\* The call with the previous mask file it names.
WithOldMask(c) ==
    [c EXCEPT !.old_mask = IF @ = "none" THEN NoMask ELSE FirstChannel(c.cube)]

NotReturned == [kind |-> "not called"]

InitSignalMask ==
    /\ HandlerIdle
    /\ NoiseIdle
    /\ call \in {WithOldMask(c) : c \in SignalMaskCalls}
    /\ ret = NotReturned

\* A call of signal_mask.
SignalMask ==
    /\ call.fn = "signal_mask"
    /\ ret = NotReturned
    /\ ret' = signal_mask(call)
    /\ UNCHANGED <<call, pvars, nvars, fvars>>

NextSignalMask == SignalMask

SpecSignalMask == InitSignalMask /\ [][NextSignalMask]_vars

----------------------------------------------------------------------------
(* casaMosaicRoutines.  Angles on the sky are integers in arcseconds; a    *)
(* header holds its increments in radians, written here as the number of   *)
(* arcseconds they amount to, with their sign.  An image on disk is a      *)
(* record of the header fields and pixel data the routines read.           *)

\* Beams are at most MaxBeam arcseconds.
MaxBeam == 3

\* An optional number: None, or the number.
NoNumber == [none |-> TRUE, v |-> 0]
Number(x) == [none |-> FALSE, v |-> x]

\* An optional list of file names, a dictionary of them (a set of
\* <<key, value>> pairs), or a value of another type.
NoArg == [type |-> "None", list |-> <<>>, dict |-> {}]
ListArg(s) == [type |-> "list", list |-> s, dict |-> {}]
DictArg(d) == [type |-> "dict", list |-> <<>>, dict |-> d]
StrArg(s) == [type |-> "str", list |-> <<s>>, dict |-> {}]

Keys(d) == {kv[1] : kv \in d}
Lookup(d, k) == (CHOOSE kv \in d : kv[1] = k)[2]

\* The header of an image as common_res_for_mosaic reads it.
Header(bmaj, beamunit, incr, axisunit) ==
    [bmaj |-> bmaj, beamunit |-> beamunit, incr |-> incr, axisunit |-> axisunit]

\* abs(incr/np.pi*180.0*3600.): the pixel size in arcseconds.
PixelInArcsec(incr) == Abs(incr)

RECURSIVE np_max(_)
np_max(s) ==
    IF Len(s) = 1 THEN s[1]
    ELSE LET m == np_max(Tail(s)) IN IF Head(s) > m THEN Head(s) ELSE m

\* What common_res_for_mosaic returns and does: the square of the value
\* returned, the files whose header it read, and its calls of casa.imsmooth.
ResOutcome(kind, sq, read, smoothed) ==
    [kind |-> kind, sq |-> sq, read |-> read, smoothed |-> smoothed]

NoDict == [ok |-> FALSE, dict |-> {}]

\* Lines 91-121: the output files matched to the input files, or none when
\* the lists do not match.
outfile_dict(infile_list, outfile_list) ==
    IF outfile_list.type = "None" THEN NoDict
    ELSE IF outfile_list.type \notin {"list", "dict"} THEN NoDict
    ELSE IF outfile_list.type = "list" /\ Len(infile_list) # Len(outfile_list.list)
    THEN NoDict
    ELSE LET d == IF outfile_list.type = "list"
                  THEN {<<infile_list[i], outfile_list.list[i]>> :
                          i \in {k \in DOMAIN infile_list :
                                    \A j \in DOMAIN infile_list :
                                        infile_list[j] = infile_list[k] => j <= k}}
                  ELSE outfile_list.dict
         IN  IF \E i \in DOMAIN infile_list : infile_list[i] \notin Keys(d)
             THEN NoDict ELSE [ok |-> TRUE, dict |-> d]

\* Lines 124-152: the square of the target resolution computed from the
\* headers, and the headers read on the way; "None" after a header with
\* unexpected units, "ValueError" for np.max of an empty list.
RECURSIVE ReadHeaders(_, _, _)
ReadHeaders(infile_list, files, i) ==
    IF i > Len(infile_list) THEN [ok |-> TRUE, read |-> {}]
    ELSE LET hdr == files[infile_list[i]]
         IN  IF hdr.axisunit # "rad" \/ hdr.beamunit # "arcsec"
             THEN [ok |-> FALSE, read |-> {infile_list[i]}]
             ELSE LET rest == ReadHeaders(infile_list, files, i + 1)
                  IN  [ok |-> rest.ok, read |-> {infile_list[i]} \cup rest.read]

\* A variant of TargetBmajSq that takes beam and pixel of the last cube.
TargetBmajSq_lastCube(infile_list, files, pixel_padding) ==
    LET hdr == files[infile_list[Len(infile_list)]]
    IN  hdr.bmaj * hdr.bmaj
        + (pixel_padding * PixelInArcsec(hdr.incr))
          * (pixel_padding * PixelInArcsec(hdr.incr))

\* Lines 150-152: max_bmaj**2 + (pixel_padding*max_pix)**2, whose square
\* root is target_bmaj.
TargetBmajSq(infile_list, files, pixel_padding) ==
    LET bmaj_list == [i \in DOMAIN infile_list |-> files[infile_list[i]].bmaj]
        pix_list == [i \in DOMAIN infile_list |->
                        PixelInArcsec(files[infile_list[i]].incr)]
        max_bmaj == np_max(bmaj_list)
        max_pix == np_max(pix_list)
    IN  max_bmaj * max_bmaj + (pixel_padding * max_pix) * (pixel_padding * max_pix)

\* common_res_for_mosaic(infile_list, outfile_list, target_res,
\* pixel_padding, do_convolve, overwrite) with the images c.files on disk.
\* With a target_res, line 154 reads force_beam, a name that neither the
\* function nor the module binds.
common_res_for_mosaic(c) ==
    IF c.infile_list.none THEN ResOutcome("None", 0, {}, <<>>)
    ELSE IF ~(Range(c.infile_list.v) \subseteq DOMAIN c.files)
    THEN ResOutcome("None", 0, {}, <<>>)
    ELSE
    LET infile_list == c.infile_list.v
        d == IF c.do_convolve THEN outfile_dict(infile_list, c.outfile_list)
             ELSE NoDict
    IN  IF c.do_convolve /\ ~d.ok THEN ResOutcome("None", 0, {}, <<>>)
        ELSE IF ~c.target_res.none THEN ResOutcome("NameError", 0, {}, <<>>)
        ELSE
        LET hdrs == ReadHeaders(infile_list, c.files, 1)
        IN  IF ~hdrs.ok THEN ResOutcome("None", 0, hdrs.read, <<>>)
            ELSE IF infile_list = <<>> THEN ResOutcome("ValueError", 0, {}, <<>>)
            ELSE
            LET sq == TargetBmajSq(infile_list, c.files, c.pixel_padding)
            IN  IF ~c.do_convolve THEN ResOutcome("value", sq, hdrs.read, <<>>)
                ELSE ResOutcome("value", sq, hdrs.read,
                        [i \in DOMAIN infile_list |->
                            [imagename |-> infile_list[i],
                             outfile |-> Lookup(d.dict, infile_list[i]),
                             major_sq |-> sq, overwrite |-> c.overwrite]])

\* pixel_padding when the caller gives none.
DefaultPadding == 2

\* Two images on disk, "a" and "b"; "c" is no file.  The header of "a" has
\* the expected units, the one of "b" any.
HeaderPairs ==
    {("a" :> Header(ba, "arcsec", ia, "rad")) @@ ("b" :> Header(bb, ub, ib, ab)) :
        ba \in 1..MaxBeam, ia \in {-1, 2},
        bb \in 1..MaxBeam, ib \in {-1, 2},
        ub \in {"arcsec", "deg"}, ab \in {"rad", "deg"}}

CommonResCalls ==
    {[fn |-> "common_res_for_mosaic", files |-> f, infile_list |-> l,
      outfile_list |-> o, target_res |-> t, pixel_padding |-> p,
      do_convolve |-> dc, overwrite |-> ow] :
        f \in HeaderPairs,
        l \in {NoneList, List(<<>>), List(<<"a">>), List(<<"a", "b">>),
               List(<<"a", "c">>)},
        o \in {NoArg, ListArg(<<"a_out", "b_out">>), ListArg(<<"a_out">>),
               DictArg({<<"a", "a_out">>}), StrArg("a_out")},
        t \in {NoNumber, Number(2)},
        p \in {DefaultPadding, 3},
        dc \in BOOLEAN, ow \in BOOLEAN}

\* A call of common_res_for_mosaic.
CommonResForMosaic ==
    /\ call.fn = "common_res_for_mosaic"
    /\ ret = NotReturned
    /\ ret' = common_res_for_mosaic(call)
    /\ UNCHANGED <<call, pvars, nvars, fvars>>

\* Weights are at most MaxWeight.
MaxWeight == 2

\* What mosaic_aligned_data leaves: how it ended, the sum and weight
\* images, the quotient image (pixels [num, den]), the mask image, the
\* pixels of the output that are valid, and the files it removed.
MosaicOutcome(kind, sum_file, weight_file, temp, mask_file, removed) ==
    [kind |-> kind, sum_file |-> sum_file, weight_file |-> weight_file,
     temp |-> temp, mask_file |-> mask_file, removed |-> removed]

\* A variant of LelTerm that weights every image by the first weight image.
LelTerm_firstWeight(ii, n_image) == [im |-> ii, wt |-> n_image]

\* Lines 764-767: the images the term of cube ii refers to, 'IM'+str(ii) and
\* 'IM'+str(ii+n_image), as indices into imlist counted from 0.
LelTerm(ii, n_image) == [im |-> ii, wt |-> ii + n_image]

\* Lines 760-774: the terms of lel_exp_sum and lel_exp_weight.
LelTerms(n_image) == [k \in 1..n_image |-> LelTerm(k - 1, n_image)]

\* casa.immath evaluates (IMi*IMj*IMj)+... and (IMj*IMj)+... pixel by pixel.
RECURSIVE EvalSum(_, _, _, _)
EvalSum(terms, images, p, k) ==
    IF k > Len(terms) THEN 0
    ELSE images[terms[k].im + 1][p] * images[terms[k].wt + 1][p]
             * images[terms[k].wt + 1][p]
         + EvalSum(terms, images, p, k + 1)

RECURSIVE EvalWeight(_, _, _, _)
EvalWeight(terms, images, p, k) ==
    IF k > Len(terms) THEN 0
    ELSE images[terms[k].wt + 1][p] * images[terms[k].wt + 1][p]
         + EvalWeight(terms, images, p, k + 1)

\* Lines 791-793: iif(IM1 > 0.0, IM0/IM1, 0.0), the quotient as [num, den].
Quotient(s, w) == IF w > 0 THEN [num |-> s, den |-> w] ELSE [num |-> 0, den |-> 1]

\* A variant of MaskValue that accepts a weight of zero.
MaskValue_zeroToo(w) == IF w >= 0 THEN 1 ELSE 0

\* Lines 795-796: iif(IM0 > 0.0, 1.0, 0.0).
MaskValue(w) == IF w > 0 THEN 1 ELSE 0

MosaicProducts(outfile) ==
    {outfile, outfile \o ".sum", outfile \o ".weight", outfile \o ".temp",
     outfile \o ".mask"}

\* mosaic_aligned_data(infile_list, weightfile_list, outfile, overwrite)
\* with the images c.files on disk and the files c.present of an earlier run.
mosaic_aligned_data(c) ==
    IF c.infile_list.none \/ c.weightfile_list.none \/ c.outfile = "None"
    THEN MosaicOutcome("None", <<>>, <<>>, <<>>, <<>>, {})
    ELSE
    LET outfile == c.outfile
        blocking == {outfile, outfile \o ".sum", outfile \o ".weight"}
    IN  IF (blocking \cap c.present # {}) /\ ~c.overwrite
        THEN MosaicOutcome("None", <<>>, <<>>, <<>>, <<>>, {})
        ELSE
        LET removed == IF c.overwrite THEN MosaicProducts(outfile) \cap c.present
                       ELSE {}
            imlist == c.infile_list.v \o c.weightfile_list.v
            n_image == Len(c.infile_list.v)
            terms == LelTerms(n_image)
            images == [k \in DOMAIN imlist |-> c.files[imlist[k]]]
        IN  IF \/ n_image = 0
               \/ ~(Range(imlist) \subseteq DOMAIN c.files)
               \/ \E k \in DOMAIN terms : terms[k].wt + 1 > Len(imlist)
               \/ (c.present \ removed) \cap MosaicProducts(outfile) # {}
            THEN MosaicOutcome("immath error", <<>>, <<>>, <<>>, <<>>, removed)
            ELSE
            LET pixels == DOMAIN images[1]
                s == [p \in pixels |-> EvalSum(terms, images, p, 1)]
                w == [p \in pixels |-> EvalWeight(terms, images, p, 1)]
            IN  MosaicOutcome("done", s, w,
                    [p \in pixels |-> Quotient(s[p], w[p])],
                    [p \in pixels |-> MaskValue(w[p])], removed)

\* casa.imsubimage(imagename=outfile+'.temp', mask=outfile+'.mask'): the
\* pixels of the output that are valid.
OutputValid(r) == [p \in DOMAIN r.mask_file |-> r.mask_file[p] # 0]

\* Images of two pixels: the cubes "d1", "d2" and the weights "w1", "w2".
PixelPairs(S) == [1..2 -> S]

MosaicImages ==
    {("d1" :> d1) @@ ("d2" :> d2) @@ ("w1" :> w1) @@ ("w2" :> w2) :
        d1 \in PixelPairs({-1, 2}), d2 \in PixelPairs({-1, 2}),
        w1 \in PixelPairs(0..MaxWeight), w2 \in PixelPairs(0..MaxWeight)}

OneMosaicImages ==
    ("d1" :> <<2, -1>>) @@ ("d2" :> <<2, 2>>) @@ ("w1" :> <<1, 0>>) @@ ("w2" :> <<2, 0>>)

MosaicDataCall(f, i, w, o, ow, pr) ==
    [fn |-> "mosaic_aligned_data", files |-> f, infile_list |-> i,
     weightfile_list |-> w, outfile |-> o, overwrite |-> ow, present |-> pr]

\* Calls on every pair of cubes and weights with matching lists, and calls
\* on one such pair with the arguments varying.
MosaicDataCalls ==
    {MosaicDataCall(f, List(<<"d1", "d2">>), List(w), "out", ow, {}) :
        f \in MosaicImages, w \in {<<"w1", "w2">>, <<"w2", "w1">>},
        ow \in BOOLEAN}
    \cup
    {MosaicDataCall(OneMosaicImages, i, w, o, ow, pr) :
        i \in {NoneList, List(<<>>), List(<<"d1">>), List(<<"d1", "d2">>)},
        w \in {NoneList, List(<<>>), List(<<"w1">>), List(<<"w1", "w2">>)},
        o \in {"None", "out"}, ow \in BOOLEAN,
        pr \in {{}, {"out"}, {"out.temp"}}}

\* A call of mosaic_aligned_data.
MosaicAlignedData ==
    /\ call.fn = "mosaic_aligned_data"
    /\ ret = NotReturned
    /\ ret' = mosaic_aligned_data(call)
    /\ UNCHANGED <<call, pvars, nvars, fvars>>

----------------------------------------------------------------------------
(* generate_weight_file (casaMosaicRoutines.py).                           *)

\* A rational number; a denominator of 0 stands for numpy's inf.
Rat(n, d) == [num |-> n, den |-> d]
RatEq(a, b) == a.num * b.den = b.num * a.den /\ (a.den = 0 <=> b.den = 0)

\* The directories on disk other than those named in gone.
Remove(files, gone) == [k \in DOMAIN files \ gone |-> files[k]]

\* cp -r template outfile, with outfile absent: outfile becomes a copy of
\* template; without the template nothing is copied.
Copy(files, template, outfile) ==
    IF template \in DOMAIN files
    THEN [k \in DOMAIN files \cup {outfile} |->
             IF k = outfile THEN files[template] ELSE files[k]]
    ELSE files

\* What generate_weight_file leaves: how it ended, the images on disk, the
\* weight image it computed in memory, and the directory the second copy
\* nested inside outfile.
WeightOutcome(kind, files, weight_image, nested) ==
    [kind |-> kind, files |-> files, weight_image |-> weight_image,
     nested |-> nested]

valid_types == {"pb", "noise", "weight"}

\* Lines 680-685 and 694-699: the weight of a value x (the tests are
\* `input_type is 'pb'` on interned literals, taken as equality).
WeightTransform(input_type, x) ==
    CASE input_type = "noise" -> Rat(1, x * x)
      [] input_type = "pb" -> Rat(x * x, 1)
      [] input_type = "weight" -> Rat(x, 1)

\* Lines 703-705.
ScaleByFactor(weight_image, scale_by_factor) ==
    IF scale_by_factor.none THEN weight_image
    ELSE [p \in DOMAIN weight_image |->
             Rat(weight_image[p].num * scale_by_factor.v, weight_image[p].den)]

\* Line 713, myia.putchunk(data): the pixels written into outfile.
PutChunk(chunk, weight_image) == chunk

\* Line 665, os.system('rm -rf '+outfile).
RemoveOutfile(files, outfile) == Remove(files, {outfile})

\* generate_weight_file(image_file, input_file, input_value, input_type,
\* outfile, scale_by_noise, noise_value, scale_by_factor, overwrite) with the
\* images c.files on disk.
generate_weight_file(c) ==
    LET unchanged == WeightOutcome("None", c.files, <<>>, "None")
    IN
    IF \/ c.image_file = "None" /\ c.input_file = "None"
       \/ c.input_file = "None" /\ c.input_value.none
       \/ c.input_file # "None" /\ ~c.input_value.none
       \/ c.outfile = "None"
       \/ c.input_file # "None" /\ c.input_type \notin valid_types
       \/ c.input_file # "None" /\ c.input_file \notin DOMAIN c.files
       \/ c.image_file # "None" /\ c.image_file \notin DOMAIN c.files
       \/ c.scale_by_noise /\ c.noise_value.none /\ c.image_file = "None"
       \/ c.outfile \in DOMAIN c.files /\ ~c.overwrite
    THEN unchanged
    ELSE
    LET template == IF c.input_file = "None" THEN c.image_file ELSE c.input_file
        cleared == IF c.outfile \in DOMAIN c.files
                   THEN RemoveOutfile(c.files, c.outfile) ELSE c.files
        copied == Copy(cleared, template, c.outfile)
    IN  IF c.outfile \notin DOMAIN copied
        THEN WeightOutcome("RuntimeError", copied, <<>>, "None")
        ELSE
        LET chunk == copied[c.outfile]
            nested == IF c.input_file # "None" /\ template \in DOMAIN copied
                      THEN template ELSE "None"
        IN  IF c.input_file = "None" /\ c.input_type \notin valid_types
            THEN WeightOutcome("UnboundLocalError", copied, <<>>, nested)
            ELSE IF c.input_file = "None" /\ c.input_type = "noise"
                    /\ c.input_value.v = 0
            THEN WeightOutcome("ZeroDivisionError", copied, <<>>, nested)
            ELSE
            LET weight_image ==
                    ScaleByFactor(IF c.input_file = "None"
                          THEN [p \in DOMAIN chunk |->
                                   WeightTransform(c.input_type, c.input_value.v)]
                          ELSE [p \in DOMAIN chunk |->
                                   WeightTransform(c.input_type, chunk[p])],
                          c.scale_by_factor)
            IN  IF c.scale_by_noise /\ c.noise_value.none
                THEN WeightOutcome("TypeError", copied, weight_image, nested)
                ELSE IF c.scale_by_noise /\ c.noise_value.v = 0
                THEN WeightOutcome("ZeroDivisionError", copied, weight_image,
                                   nested)
                ELSE WeightOutcome("done",
                         [k \in DOMAIN copied |->
                             IF k = c.outfile THEN PutChunk(chunk, weight_image)
                             ELSE copied[k]],
                         weight_image, nested)

\* The images on disk before a call: the template "img", the input cube
\* "in", and perhaps an "out" of an earlier call.
WeightDisks ==
    {("img" :> <<a, 2>>) @@ ("in" :> <<0, b>>) :
        a \in 1..MaxWeight, b \in 1..MaxWeight}
    \cup
    {("img" :> <<1, 2>>) @@ ("in" :> <<2, 1>>) @@ ("out" :> <<5, 5>>)}

WeightCall(f, im, inp, v, t, o, sn, nv, sf, ow) ==
    [fn |-> "generate_weight_file", files |-> f, image_file |-> im,
     input_file |-> inp, input_value |-> v, input_type |-> t, outfile |-> o,
     scale_by_noise |-> sn, noise_value |-> nv, scale_by_factor |-> sf,
     overwrite |-> ow]

\* The call is one of generate_weight_file.
IsWeightCall(c) ==
    \E f \in WeightDisks,
       im \in {"None", "img", "missing"},
       inp \in {"None", "in", "missing"},
       v \in {NoNumber, Number(0), Number(2)},
       t \in {"pb", "noise", "weight", "other"},
       o \in {"None", "out", "in", "img"},
       sn \in BOOLEAN,
       nv \in {NoNumber, Number(0), Number(2)},
       sf \in {NoNumber, Number(3)},
       ow \in BOOLEAN :
        c = WeightCall(f, im, inp, v, t, o, sn, nv, sf, ow)

\* A call of generate_weight_file.
GenerateWeightFile ==
    /\ call.fn = "generate_weight_file"
    /\ ret = NotReturned
    /\ ret' = generate_weight_file(call)
    /\ UNCHANGED <<call, pvars, nvars, fvars>>

----------------------------------------------------------------------------
(* calculate_mosaic_extent (casaMosaicRoutines.py).                        *)
(* Angles in radians are counted in units of pi/360, half a degree.        *)

\* Corner coordinates are at most MaxCorner degrees away from the points
\* the cubes are placed around.
MaxCorner == 2

\* x degrees in radians, x * np.pi / 180.
DegToRad(x) == 2 * x

\* r radians in degrees, r * 180. / np.pi.
RadToDeg(r) == [num |-> r, den |-> 2]

\* r radians in arcseconds, r * 180. / np.pi * 3600.
RadToArcsec(r) == 1800 * r

\* The names calculate_mosaic_extent reads without the module binding
\* them (lines 8-27 import none): they resolve only if the namespace the
\* code is loaded into supplies them.
MosaicFreeNames == {"imval"}

\* The angles (in radians) whose cosine is rational, and np.cos of them.
ExactCos == {DegToRad(0), DegToRad(60), DegToRad(-60), DegToRad(90), DegToRad(-90)}

np_cos(r) ==
    CASE r = DegToRad(0) -> [num |-> 1, den |-> 1]
      [] r \in {DegToRad(60), DegToRad(-60)} -> [num |-> 1, den |-> 2]
      [] r \in {DegToRad(90), DegToRad(-90)} -> [num |-> 0, den |-> 1]

RECURSIVE np_min(_)
np_min(s) ==
    IF Len(s) = 1 THEN s[1]
    ELSE LET m == np_min(Tail(s)) IN IF Head(s) < m THEN Head(s) ELSE m

\* What casa.imhead and imval give for an image: the names and units of its
\* first two axes and the coordinates of its corners blc, tlc, trc, brc.
Image(axisnames, axisunits, ra, dec) ==
    [axisnames |-> axisnames, axisunits |-> axisunits,
     corners |-> << <<ra[1], dec[1]>>, <<ra[1], dec[2]>>,
                    <<ra[2], dec[2]>>, <<ra[2], dec[1]>> >>]

\* Lines 229-240: the header of an image passes the checks.
AxesAsExpected(img) ==
    /\ img.axisnames = <<"Right Ascension", "Declination">>
    /\ img.axisunits = <<"rad", "rad">>

\* Lines 227-268: the loop over the input files, from file k on; it ends
\* at the first header that fails a check or the first call of imval that
\* does not resolve.
RECURSIVE ScanCorners(_, _, _, _)
ScanCorners(infile_list, images, namespace, k) ==
    IF k > Len(infile_list) THEN "ok"
    ELSE IF ~AxesAsExpected(images[infile_list[k]]) THEN "None"
    ELSE IF "imval" \notin namespace THEN "NameError"
    ELSE ScanCorners(infile_list, images, namespace, k + 1)

\* Lines 260-268: ra_list (axis 1) and dec_list (axis 2).
RECURSIVE CornerList(_, _, _, _)
CornerList(infile_list, images, axis, k) ==
    IF k > Len(infile_list) THEN <<>>
    ELSE [i \in 1..4 |-> images[infile_list[k]].corners[i][axis]]
         \o CornerList(infile_list, images, axis, k + 1)

\* What calculate_mosaic_extent returns or raises; kind "dict" comes with
\* the centre in degrees and the extent in arcseconds.
ExtentOutcome(kind, ra_ctr, dec_ctr, delta_ra, delta_dec) ==
    [kind |-> kind, ra_ctr |-> ra_ctr, dec_ctr |-> dec_ctr,
     delta_ra |-> delta_ra, delta_dec |-> delta_dec]

NoExtent(kind) ==
    ExtentOutcome(kind, RadToDeg(0), RadToDeg(0), [num |-> 0, den |-> 1], 0)

\* A variant of Centre that takes the maximum.
Centre_max(lo, hi, force) == IF force.none THEN hi ELSE DegToRad(force.v)

\* Lines 290-298: the centre on one axis, in radians.
Centre(lo, hi, force) ==
    IF force.none THEN (hi + lo) \div 2 ELSE DegToRad(force.v)

\* A variant of HalfWidth that measures from the maximum only.
HalfWidth_maxOnly(lo, hi, ctr) == Abs(hi - ctr)

\* Lines 302-304: np.max([np.abs(max-ctr), np.abs(min-ctr)]).
HalfWidth(lo, hi, ctr) ==
    IF Abs(hi - ctr) > Abs(lo - ctr) THEN Abs(hi - ctr) ELSE Abs(lo - ctr)

\* calculate_mosaic_extent(infile_list, force_ra_ctr, force_dec_ctr) with
\* the images on disk, loaded into the namespace.
calculate_mosaic_extent(infile_list, force_ra_ctr, force_dec_ctr, images, namespace) ==
    IF infile_list.none THEN NoExtent("None")
    ELSE IF ~(Range(infile_list.v) \subseteq DOMAIN images) THEN NoExtent("None")
    ELSE IF ScanCorners(infile_list.v, images, namespace, 1) # "ok"
    THEN NoExtent(ScanCorners(infile_list.v, images, namespace, 1))
    ELSE IF infile_list.v = <<>> THEN NoExtent("ValueError")
    ELSE
    LET ra_list == CornerList(infile_list.v, images, 1, 1)
        dec_list == CornerList(infile_list.v, images, 2, 1)
        min_ra == np_min(ra_list)
        max_ra == np_max(ra_list)
        min_dec == np_min(dec_list)
        max_dec == np_max(dec_list)
        ra_ctr == Centre(min_ra, max_ra, force_ra_ctr)
        dec_ctr == Centre(min_dec, max_dec, force_dec_ctr)
        delta_ra == 2 * HalfWidth(min_ra, max_ra, ra_ctr)
        delta_dec == 2 * HalfWidth(min_dec, max_dec, dec_ctr)
    IN  ExtentOutcome("dict", RadToDeg(ra_ctr), RadToDeg(dec_ctr),
            [num |-> RadToArcsec(delta_ra) * np_cos(dec_ctr).num,
             den |-> np_cos(dec_ctr).den],
            RadToArcsec(delta_dec))

\* Two cubes: "a" around RA 10 and "b" east of it, each around Dec d or -d
\* degrees, with the header of "a" as expected or not.
ExtentImages ==
    {("a" :> Image(n, u, <<DegToRad(10 - i), DegToRad(10 + j)>>,
                   <<DegToRad(d - k), DegToRad(d + k)>>))
     @@ ("b" :> Image(<<"Right Ascension", "Declination">>, <<"rad", "rad">>,
                      <<DegToRad(12), DegToRad(14)>>,
                      <<DegToRad(e * d - m), DegToRad(e * d + m)>>)) :
        n \in {<<"Right Ascension", "Declination">>, <<"Declination", "Right Ascension">>},
        u \in {<<"rad", "rad">>, <<"rad", "deg">>},
        i \in 1..MaxCorner, j \in 1..MaxCorner, k \in 1..MaxCorner,
        m \in 1..MaxCorner, d \in {0, 60}, e \in {-1, 1}}

ExtentCall(l, fra, fdec, im, ns) ==
    [fn |-> "calculate_mosaic_extent", infile_list |-> l, force_ra_ctr |-> fra,
     force_dec_ctr |-> fdec, images |-> im, namespace |-> ns]

\* The call is one of calculate_mosaic_extent whose centre in declination
\* has a rational cosine.
IsExtentCall(c) ==
    \E l \in {NoneList, List(<<>>), List(<<"a">>), List(<<"a", "b">>),
              List(<<"b", "a">>), List(<<"a", "missing">>)},
       fra \in {NoNumber, Number(11)},
       fdec \in {NoNumber, Number(0), Number(60)},
       im \in ExtentImages,
       ns \in {{}, MosaicFreeNames} :
        /\ c = ExtentCall(l, fra, fdec, im, ns)
        /\ (fdec.none /\ ~l.none /\ l.v # <<>> /\ Range(l.v) \subseteq DOMAIN im) =>
              (np_max(CornerList(l.v, im, 2, 1)) + np_min(CornerList(l.v, im, 2, 1)))
                  \div 2 \in ExactCos

\* A call of calculate_mosaic_extent.
CalculateMosaicExtent ==
    /\ call.fn = "calculate_mosaic_extent"
    /\ ret = NotReturned
    /\ ret' = calculate_mosaic_extent(call.infile_list, call.force_ra_ctr,
                  call.force_dec_ctr, call.images, call.namespace)
    /\ UNCHANGED <<call, pvars, nvars, fvars>>

----------------------------------------------------------------------------
(* build_common_header (casaMosaicRoutines.py).                            *)

\* Extents are at most MaxExtent arcseconds.
MaxExtent == 4

\* Line 326, too_big_pix=1e4.
DefaultTooBigPix == 10000

\* np.ceil(a / b) for a >= 0 and b > 0.
Ceil(a, b) == (a + b - 1) \div b

\* Lines 422-423: an angle of x degrees in radians, x * np.pi / 180.
InRad(x) == [pi_over_180 |-> x]

\* What build_common_header returns or raises; kind "header" comes with the
\* reference values, reference pixels (halves of the sizes) and shape.
HeaderOutcome(kind, crval, crpix, shap) ==
    [kind |-> kind, crval |-> crval, crpix |-> crpix, shap |-> shap]

NoHeader(kind) == HeaderOutcome(kind, <<>>, <<>>, <<>>)

\* A variant of TooBig that tests the RA axis only.
TooBig_raOnly(ra_axis_size, dec_axis_size, too_big_pix) ==
    ra_axis_size > too_big_pix

\* Lines 452-453.
TooBig(ra_axis_size, dec_axis_size, too_big_pix) ==
    ra_axis_size > too_big_pix \/ dec_axis_size > too_big_pix

\* build_common_header(infile_list, template_file, ra_ctr, dec_ctr,
\* delta_ra, delta_dec, allow_big_image, too_big_pix) with the images
\* c.present on disk and c.units, c.cdelt (in arcseconds) in the header of
\* the template.
build_common_header(c) ==
    IF c.template_file = "None" /\ c.infile_list.none
    THEN NoHeader("None")
    ELSE IF c.template_file = "None" /\ c.infile_list.v = <<>>
    THEN NoHeader("IndexError")
    ELSE
    LET template_file == IF c.template_file = "None" THEN c.infile_list.v[1]
                         ELSE c.template_file
        extent_missing == \/ c.delta_ra.none \/ c.delta_dec.none
                          \/ c.ra_ctr.none \/ c.dec_ctr.none
    IN  IF \/ ~c.infile_list.none /\ ~(Range(c.infile_list.v) \subseteq c.present)
           \/ template_file \notin c.present
           \/ c.infile_list.none /\ extent_missing
        THEN NoHeader("None")
        ELSE IF extent_missing
        \* Lines 399-412: an exception of calculate_mosaic_extent passes
        \* through; what it returns is assigned to extent_dict and then read
        \* through `extent`, which nothing binds.
        THEN IF calculate_mosaic_extent(c.infile_list, c.ra_ctr, c.dec_ctr,
                    c.images, c.namespace).kind \in {"NameError", "ValueError"}
             THEN NoHeader(calculate_mosaic_extent(c.infile_list, c.ra_ctr,
                               c.dec_ctr, c.images, c.namespace).kind)
             ELSE NoHeader("NameError")
        ELSE IF c.units # <<"rad", "rad">>
        THEN IF c.infile_list.none THEN NoHeader("TypeError")
             ELSE IF c.infile_list.v = <<>> THEN NoHeader("IndexError")
             ELSE NoHeader("None")
        ELSE
        LET ra_pix_in_as == Abs(c.cdelt[1])
            ra_axis_size == Ceil(c.delta_ra.v, ra_pix_in_as)
            dec_pix_in_as == Abs(c.cdelt[2])
            dec_axis_size == Ceil(c.delta_dec.v, dec_pix_in_as)
        IN  IF ~c.allow_big_image
               /\ TooBig(ra_axis_size, dec_axis_size, c.too_big_pix)
            THEN NoHeader("None")
            ELSE HeaderOutcome("header",
                     <<InRad(c.ra_ctr.v), InRad(c.dec_ctr.v)>>,
                     <<[num |-> ra_axis_size, den |-> 2],
                       [num |-> dec_axis_size, den |-> 2]>>,
                     <<ra_axis_size, dec_axis_size>>)

\* Extents in arcseconds: small ones and those around the default limit.
Extents ==
    {NoNumber} \cup {Number(x) : x \in 0..MaxExtent}
    \cup {Number(DefaultTooBigPix), Number(DefaultTooBigPix + 1)}

\* The cube "a" and the template "t" on disk: both span RA 9..11 and Dec
\* 59..61 degrees.
HeaderImages ==
    [f \in {"a", "t"} |->
        Image(<<"Right Ascension", "Declination">>, <<"rad", "rad">>,
              <<DegToRad(9), DegToRad(11)>>, <<DegToRad(59), DegToRad(61)>>)]

HeaderCall(l, t, ctr, dra, ddec, big, tb, u, cd, ns) ==
    [fn |-> "build_common_header", present |-> DOMAIN HeaderImages,
     images |-> HeaderImages, namespace |-> ns, infile_list |-> l,
     template_file |-> t, ra_ctr |-> ctr[1], dec_ctr |-> ctr[2],
     delta_ra |-> dra, delta_dec |-> ddec, allow_big_image |-> big,
     too_big_pix |-> tb, units |-> u, cdelt |-> cd]

\* The call is one of build_common_header.
IsHeaderCall(c) ==
    \E l \in {NoneList, List(<<>>), List(<<"a">>), List(<<"a", "missing">>)},
       t \in {"None", "t", "missing"},
       ctr \in {<<Number(10), Number(60)>>, <<NoNumber, Number(60)>>,
                <<NoNumber, NoNumber>>},
       dra \in Extents, ddec \in Extents,
       big \in BOOLEAN,
       tb \in {2, DefaultTooBigPix},
       u \in {<<"rad", "rad">>, <<"deg", "rad">>},
       cd \in {<<-2, 1>>, <<1, 2>>},
       ns \in {{}, MosaicFreeNames} :
        c = HeaderCall(l, t, ctr, dra, ddec, big, tb, u, cd, ns)

\* A call of build_common_header.
BuildCommonHeader ==
    /\ call.fn = "build_common_header"
    /\ ret = NotReturned
    /\ ret' = build_common_header(call)
    /\ UNCHANGED <<call, pvars, nvars, fvars>>

----------------------------------------------------------------------------
(* common_astrometry_for_mosaic (casaMosaicRoutines.py).                   *)

\* What common_astrometry_for_mosaic returns or raises, and its calls of
\* casa.imregrid in order.
AstrometryOutcome(kind, target_hdr, regrids) ==
    [kind |-> kind, target_hdr |-> target_hdr, regrids |-> regrids]

\* Lines 522-537: the output files by input file, or none when the check
\* of the lists fails.
astrometry_outfile_dict(infile_list, outfile_list) ==
    IF outfile_list.type \notin {"list", "dict"} THEN NoDict
    ELSE IF outfile_list.type = "list" /\ Len(infile_list) # Len(outfile_list.list)
    THEN NoDict
    ELSE IF outfile_list.type = "list"
    THEN [ok |-> TRUE,
          dict |-> {<<infile_list[i], outfile_list.list[i]>> :
                      i \in {k \in DOMAIN infile_list :
                                \A j \in DOMAIN infile_list :
                                    infile_list[j] = infile_list[k] => j <= k}}]
    ELSE [ok |-> TRUE, dict |-> outfile_list.dict]

\* Lines 561-578: the loop over the input files from file k on, with the
\* calls made so far; it makes no test of target_hdr and ends at a file
\* that outfile_dict does not hold.
RECURSIVE AlignLoop(_, _, _, _, _, _)
AlignLoop(infile_list, dict, present, target_hdr, k, regrids) ==
    IF k > Len(infile_list)
    THEN [kind |-> "returned", regrids |-> regrids]
    ELSE IF infile_list[k] \notin Keys(dict)
    THEN [kind |-> "KeyError", regrids |-> regrids]
    ELSE IF infile_list[k] \notin present
    THEN AlignLoop(infile_list, dict, present, target_hdr, k + 1, regrids)
    ELSE AlignLoop(infile_list, dict, present, target_hdr, k + 1,
             Append(regrids, [imagename |-> infile_list[k],
                              template |-> target_hdr,
                              output |-> Lookup(dict, infile_list[k])]))

\* common_astrometry_for_mosaic(infile_list, outfile_list, target_hdr,
\* template_file, ra_ctr, dec_ctr, delta_ra, delta_dec, allow_big_image,
\* too_big_pix) with the images of c on disk.
common_astrometry_for_mosaic(c) ==
    IF c.infile_list.none \/ c.outfile_list.type = "None"
    THEN AstrometryOutcome("None", NoHeader("None"), <<>>)
    ELSE IF ~astrometry_outfile_dict(c.infile_list.v, c.outfile_list).ok
    THEN AstrometryOutcome("None", NoHeader("None"), <<>>)
    ELSE
    LET dict == astrometry_outfile_dict(c.infile_list.v, c.outfile_list).dict
        target_hdr == IF c.target_hdr.kind = "None" THEN build_common_header(c)
                      ELSE c.target_hdr
    IN  IF target_hdr.kind \notin {"None", "header"}
        THEN AstrometryOutcome(target_hdr.kind, NoHeader("None"), <<>>)
        ELSE
        LET loop == AlignLoop(c.infile_list.v, dict, c.present, target_hdr,
                              1, <<>>)
        IN  AstrometryOutcome(loop.kind,
                IF loop.kind = "returned" THEN target_hdr ELSE NoHeader("None"),
                loop.regrids)

\* A header supplied by the caller.
SuppliedHeader ==
    HeaderOutcome("header", <<InRad(10), InRad(60)>>,
        <<[num |-> 3, den |-> 2], [num |-> 3, den |-> 2]>>, <<3, 3>>)

AstrometryCall(l, o, hdr, t, ctr, ext, big, u) ==
    [fn |-> "common_astrometry_for_mosaic", present |-> DOMAIN HeaderImages,
     images |-> HeaderImages, namespace |-> MosaicFreeNames,
     infile_list |-> l, outfile_list |-> o, target_hdr |-> hdr,
     template_file |-> t, ra_ctr |-> ctr[1], dec_ctr |-> ctr[2],
     delta_ra |-> ext[1], delta_dec |-> ext[2], allow_big_image |-> big,
     too_big_pix |-> DefaultTooBigPix, units |-> u, cdelt |-> <<-2, 1>>]

\* The call is one of common_astrometry_for_mosaic.
IsAstrometryCall(c) ==
    \E l \in {NoneList, List(<<"a">>), List(<<"a", "missing">>), List(<<"a", "t">>)},
       o \in {NoArg, ListArg(<<"a_out">>), ListArg(<<"a_out", "b_out">>),
              DictArg({<<"a", "a_out">>}), StrArg("a_out")},
       hdr \in {NoHeader("None"), SuppliedHeader},
       t \in {"None", "t", "missing"},
       ctr \in {<<Number(10), Number(60)>>, <<NoNumber, NoNumber>>},
       ext \in {<<Number(MaxExtent), Number(1)>>,
                <<Number(1), Number(DefaultTooBigPix + 1)>>,
                <<NoNumber, NoNumber>>},
       big \in BOOLEAN,
       u \in {<<"rad", "rad">>, <<"deg", "rad">>} :
        c = AstrometryCall(l, o, hdr, t, ctr, ext, big, u)

\* A call of common_astrometry_for_mosaic.
CommonAstrometryForMosaic ==
    /\ call.fn = "common_astrometry_for_mosaic"
    /\ ret = NotReturned
    /\ ret' = common_astrometry_for_mosaic(call)
    /\ UNCHANGED <<call, pvars, nvars, fvars>>

MosaicCalls == CommonResCalls \cup MosaicDataCalls

InitMosaic ==
    /\ HandlerIdle
    /\ NoiseIdle
    /\ \/ call \in MosaicCalls
       \/ IsWeightCall(call)
       \/ IsHeaderCall(call)
       \/ IsExtentCall(call)
       \/ IsAstrometryCall(call)
    /\ ret = NotReturned

NextMosaic ==
    \/ CommonResForMosaic
    \/ MosaicAlignedData
    \/ GenerateWeightFile
    \/ BuildCommonHeader
    \/ CalculateMosaicExtent
    \/ CommonAstrometryForMosaic

SpecMosaic == InitMosaic /\ [][NextMosaic]_vars

----------------------------------------------------------------------------
(* PostProcessHandler: the filter setters and the lists they rebuild.      *)
(* The key handler is a collaborator: it holds the full lists of the       *)
(* project and answers with the part of a list that passes the filters.    *)

\* keyHandler's selection from a full list: the elements named by `only`
\* (all when `only` is empty), not named by `skip`, not before `first` and
\* not after `last` (0 stands for None).
list_wrt_input(full, f) ==
    SelectSeq(full,
              LAMBDA x : /\ (f.only = <<>> \/ x \in Range(f.only))
                         /\ x \notin Range(f.skip)
                         /\ (f.first = 0 \/ x >= f.first)
                         /\ (f.last = 0 \/ x <= f.last))

\* The same selection for products and configurations, which have no first
\* and last.
list_wrt_only_skip(full, f) ==
    SelectSeq(full,
              LAMBDA x : /\ (f.only = <<>> \/ x \in Range(f.only))
                         /\ x \notin Range(f.skip))

get_targets(k, f) == list_wrt_input(k.targets, f)
get_linmos_targets(k, f) == list_wrt_input(k.linmos_targets, f)
get_line_products(k, f) == list_wrt_only_skip(k.line_products, f)
get_continuum_products(k, f) == list_wrt_only_skip(k.cont_products, f)
get_interf_configs(k, f) == list_wrt_only_skip(k.interf_configs, f)
get_feather_configs(k, f) == list_wrt_only_skip(k.feather_configs, f)

\* Two key handlers, of two projects.
KeyHandler(t, m, l, c, i, f) ==
    [none |-> FALSE,
     v |-> [targets |-> t, linmos_targets |-> m, line_products |-> l,
            cont_products |-> c, interf_configs |-> i, feather_configs |-> f]]

KeyHandlers ==
    {KeyHandler(<<1, 2>>, <<2>>, <<"co21">>, <<"cont">>, <<"12m">>, <<"12m+tp">>),
     KeyHandler(<<1>>, <<>>, <<"co21", "13co21">>, <<>>, <<"12m", "7m">>, <<"7m+tp">>)}

\* The line products _build_lists stores (lines 253-259).
LineProductsBuilt_ignoreNoLine(k, f, nl) ==
    get_line_products(k, f)

LineProductsBuilt(k, f, nl) ==
    IF nl THEN <<>> ELSE get_line_products(k, f)

\* The continuum products _build_lists stores (lines 261-267).
ContProductsBuilt(k, f, nc) ==
    IF nc THEN <<>> ELSE get_continuum_products(k, f)

\* PostProcessHandler._build_lists (lines 227-276) for the key handler k,
\* the filters f and the toggles nl, nc: without a key handler the lists
\* stay as they are.
build_lists(k, f, nl, nc) ==
    IF k.none
    THEN UNCHANGED <<targets_list, mosaics_list, line_products_list,
                     cont_products_list, interf_configs_list, feather_configs_list>>
    ELSE /\ targets_list' = List(get_targets(k.v, f.targets))
         /\ mosaics_list' = List(get_linmos_targets(k.v, f.mosaics))
         /\ line_products_list' = List(LineProductsBuilt(k.v, f.lines, nl))
         /\ cont_products_list' = List(ContProductsBuilt(k.v, f.cont, nc))
         /\ interf_configs_list' = List(get_interf_configs(k.v, f.interf_configs))
         /\ feather_configs_list' = List(get_feather_configs(k.v, f.feather_configs))

\* What no setter touches.
RestOfHandler ==
    <<dry_run, feather_method, linmos, sd, fs, op, args, before, result>>

\* A setter of the filters of one kind (lines 64-172): the filters are
\* stored, and the lists rebuilt unless nobuild is given.
set_filter(kind, f, nobuild) ==
    /\ filters' = [filters EXCEPT ![kind] = f]
    /\ IF nobuild
       THEN UNCHANGED <<targets_list, mosaics_list, line_products_list,
                        cont_products_list, interf_configs_list, feather_configs_list>>
       ELSE build_lists(kh, filters', no_line, no_cont)
    /\ UNCHANGED <<kh, no_line, no_cont, RestOfHandler, nvars, rvars>>

set_targets(first, last, skip, only, nobuild) ==
    set_filter("targets", Filter(first, last, skip, only), nobuild)
set_mosaic_targets(first, last, skip, only, nobuild) ==
    set_filter("mosaics", Filter(first, last, skip, only), nobuild)
set_line_products(skip, only, nobuild) ==
    set_filter("lines", Filter(0, 0, skip, only), nobuild)
set_cont_products(skip, only, nobuild) ==
    set_filter("cont", Filter(0, 0, skip, only), nobuild)
set_interf_configs(skip, only, nobuild) ==
    set_filter("interf_configs", Filter(0, 0, skip, only), nobuild)
set_feather_configs(skip, only, nobuild) ==
    set_filter("feather_configs", Filter(0, 0, skip, only), nobuild)

\* PostProcessHandler.set_no_line (lines 174-181).
set_no_line(nl) ==
    /\ no_line' = nl
    /\ build_lists(kh, filters, no_line', no_cont)
    /\ UNCHANGED <<kh, filters, no_cont, RestOfHandler, nvars, rvars>>

\* PostProcessHandler.set_no_cont (lines 183-190).
set_no_cont(nc) ==
    /\ no_cont' = nc
    /\ build_lists(kh, filters, no_line, no_cont')
    /\ UNCHANGED <<kh, filters, no_line, RestOfHandler, nvars, rvars>>

\* PostProcessHandler.set_key_handler (lines 200-207).
set_key_handler(k) ==
    /\ kh' = k
    /\ build_lists(kh', filters, no_line, no_cont)
    /\ UNCHANGED <<filters, no_line, no_cont, RestOfHandler, nvars, rvars>>

\* The filters the setters are given: the defaults, or a choice of targets,
\* products or configurations.
TargetFilters ==
    {NoFilter, Filter(0, 0, <<>>, <<1>>), Filter(0, 0, <<1>>, <<>>), Filter(2, 0, <<>>, <<>>),
     Filter(0, 1, <<>>, <<>>)}
MosaicFilters == {NoFilter, Filter(0, 0, <<2>>, <<>>)}
LineFilters == {NoFilter, Filter(0, 0, <<>>, <<"co21">>), Filter(0, 0, <<"co21">>, <<>>)}
ContFilters == {NoFilter, Filter(0, 0, <<"cont">>, <<>>)}
InterfFilters == {NoFilter, Filter(0, 0, <<>>, <<"7m">>)}
FeatherFilters == {NoFilter, Filter(0, 0, <<"12m+tp">>, <<>>)}

\* PostProcessHandler.__init__ (lines 24-60) with a key handler: every
\* filter is set to its default with nobuild, then the lists are built.
InitFilters ==
    /\ kh \in KeyHandlers
    /\ filters = [k \in Kinds |-> NoFilter]
    /\ no_line = FALSE /\ no_cont = FALSE
    /\ targets_list = List(get_targets(kh.v, NoFilter))
    /\ mosaics_list = List(get_linmos_targets(kh.v, NoFilter))
    /\ line_products_list = List(LineProductsBuilt(kh.v, NoFilter, FALSE))
    /\ cont_products_list = List(ContProductsBuilt(kh.v, NoFilter, FALSE))
    /\ interf_configs_list = List(get_interf_configs(kh.v, NoFilter))
    /\ feather_configs_list = List(get_feather_configs(kh.v, NoFilter))
    /\ dry_run = FALSE /\ feather_method = "pbcorr"
    /\ linmos = {} /\ sd = {} /\ fs = <<>>
    /\ op = "init"
    /\ args = [tog |-> {}, dry |-> FALSE, method |-> "pbcorr", failAt |-> 0]
    /\ before = <<>> /\ result = NoResult
    /\ NoiseIdle
    /\ RoutinesIdle

\* The setters, called without nobuild.
SetTargets == \E f \in TargetFilters : set_targets(f.first, f.last, f.skip, f.only, FALSE)
SetMosaicTargets == \E f \in MosaicFilters : set_mosaic_targets(f.first, f.last, f.skip, f.only, FALSE)
SetLineProducts == \E f \in LineFilters : set_line_products(f.skip, f.only, FALSE)
SetContProducts == \E f \in ContFilters : set_cont_products(f.skip, f.only, FALSE)
SetInterfConfigs == \E f \in InterfFilters : set_interf_configs(f.skip, f.only, FALSE)
SetFeatherConfigs == \E f \in FeatherFilters : set_feather_configs(f.skip, f.only, FALSE)
SetNoLine == \E b \in BOOLEAN : set_no_line(b)
SetNoCont == \E b \in BOOLEAN : set_no_cont(b)
SetKeyHandler == \E k \in KeyHandlers \cup {NoKeyHandler} : set_key_handler(k)

NextFilters ==
    \/ SetTargets
    \/ SetMosaicTargets
    \/ SetLineProducts
    \/ SetContProducts
    \/ SetInterfConfigs
    \/ SetFeatherConfigs
    \/ SetNoLine
    \/ SetNoCont
    \/ SetKeyHandler

SpecFilters == InitFilters /\ [][NextFilters]_vars

----------------------------------------------------------------------------
(* process_cubes.py: the driver script.  The galaxy list comes from        *)
(* pp.list_gal_names(); only, skip, first and last are set in the script.  *)

\* The galaxy list has at most MaxGalaxies galaxies.
MaxGalaxies == 3

GalaxyNames == <<"ngc0628", "ngc1672", "ngc3627", "ngc4321", "ngc5068">>

\* Line 80: the five phase loops, in order.
PhaseLoops == <<"stage", "process", "feather", "mosaic", "cleanup">>

\* Lines 102-106: before_first is cleared at the galaxy `first`, and tested
\* only there, after it was cleared.
FirstFilter(gal, first, before_first) ==
    IF first = "" THEN [skip |-> FALSE, before_first |-> before_first]
    ELSE IF gal = first THEN [skip |-> FALSE, before_first |-> FALSE]
    ELSE [skip |-> FALSE, before_first |-> before_first]

\* Lines 108-112: galaxies are skipped once after_last is set; it is set at
\* the galaxy `last`, which is itself processed.
LastFilter(gal, last, after_last) ==
    IF last = "" THEN [skip |-> FALSE, after_last |-> after_last]
    ELSE IF after_last THEN [skip |-> TRUE, after_last |-> after_last]
    ELSE [skip |-> FALSE, after_last |-> gal = last]

\* Lines 90-121: the loop over the galaxies of one phase, from galaxy k on;
\* the galaxies that reach the product loop are appended to `processed`.
RECURSIVE GalaxyLoop(_, _, _, _, _, _)
GalaxyLoop(c, this_loop, k, before_first, after_last, processed) ==
    IF k > Len(c.gal_part_list) THEN processed
    ELSE
    LET gal == c.gal_part_list[k]
        f == FirstFilter(gal, c.first, before_first)
        l == LastFilter(gal, c.last, after_last)
    IN  IF c.only # {} /\ gal \notin c.only
        THEN GalaxyLoop(c, this_loop, k + 1, before_first, after_last, processed)
        ELSE IF c.skip # {} /\ gal \in c.skip
        THEN GalaxyLoop(c, this_loop, k + 1, before_first, after_last, processed)
        ELSE IF f.skip
        THEN GalaxyLoop(c, this_loop, k + 1, f.before_first, after_last, processed)
        ELSE IF l.skip
        THEN GalaxyLoop(c, this_loop, k + 1, f.before_first, l.after_last, processed)
        ELSE GalaxyLoop(c, this_loop, k + 1, f.before_first, l.after_last,
                        Append(processed, [this_loop |-> this_loop, gal |-> gal]))

\* Lines 80-88: the phases from phase p on; before_first and after_last are
\* reset at the head of each phase.
RECURSIVE PhaseLoop(_, _, _)
PhaseLoop(c, p, processed) ==
    IF p > Len(PhaseLoops) THEN processed
    ELSE PhaseLoop(c, p + 1, GalaxyLoop(c, PhaseLoops[p], 1, TRUE, FALSE, processed))

\* A run of the script: the (phase, galaxy) pairs that reach the product
\* loop, in order.
process_cubes(c) ==
    [kind |-> "done", processed |-> PhaseLoop(c, 1, <<>>)]

DriverCall(g, o, s, f, l) ==
    [fn |-> "process_cubes", gal_part_list |-> g, only |-> o, skip |-> s,
     first |-> f, last |-> l]

\* A run on the first n galaxies, with only and skip among them and first
\* and last empty or one of them.
IsDriverCall(c) ==
    \E n \in 1..MaxGalaxies :
        LET g == SubSeq(GalaxyNames, 1, n)
        IN  \E o \in SUBSET Range(g), s \in SUBSET Range(g),
               f \in Range(g) \cup {""}, l \in Range(g) \cup {""} :
                c = DriverCall(g, o, s, f, l)

InitDriver ==
    /\ HandlerIdle
    /\ NoiseIdle
    /\ IsDriverCall(call)
    /\ ret = NotReturned

\* A run of process_cubes.py.
ProcessCubes ==
    /\ call.fn = "process_cubes"
    /\ ret = NotReturned
    /\ ret' = process_cubes(call)
    /\ UNCHANGED <<call, pvars, nvars, fvars>>

NextDriver == ProcessCubes

SpecDriver == InitDriver /\ [][NextDriver]_vars

----------------------------------------------------------------------------
(* Properties of the master loop.                                          *)

\* A pass has been made; result, args and before describe the last one.
Ran == op # "init"

StageEvent(e) == [triple |-> e.triple, stage |-> e.stage]

\* The (triple, stage) pairs of the last pass: blocks entered, messages
\* logged, transforms called.
StageEvents ==
    {StageEvent(result.entered[i]) : i \in DOMAIN result.entered}
    \cup {StageEvent(result.log[i]) : i \in DOMAIN result.log}
    \cup {StageEvent(result.calls[i]) : i \in DOMAIN result.calls}

\* The target of the triple is no mosaic and has no single dish data.
GateFalse(tr) == tr.target \notin linmos /\ <<tr.target, tr.product>> \notin sd

(* C1: dry-run issues no transform call, and logs exactly what a live run  *)
(* on the same inputs logs (the image engine raising nowhere).             *)
C1_DryRunSameLog ==
    (Ran /\ args.failAt = 0) =>
        /\ args.dry => result.calls = <<>>
        /\ result.log =
              master_loop(Handler, [args EXCEPT !.dry = ~args.dry], before).log

(* C2: for a triple whose target is no mosaic and has no single dish data, *)
(* a feather configuration enters, logs and calls nothing, and an          *)
(* interferometric configuration never enters, logs or calls the single    *)
(* dish preparation or the feather stage, whatever the toggles.            *)
C2_NoFeatherGatedStage ==
    \A e \in StageEvents :
        GateFalse(e.triple) =>
            /\ e.triple.config_type # "feather"
            /\ e.stage \notin {"sd", "feather"}

C2_Witness ==
    /\ result.status = "done"
    /\ {"feather", "compress"} \subseteq args.tog
    /\ \E i \in DOMAIN result.visited :
          GateFalse(result.visited[i]) /\ result.visited[i].config_type = "feather"
    /\ \E e \in StageEvents :
          GateFalse(e.triple) /\ e.triple.config_type = "interf"

(* C3: a failure within one triple does not end the pass: every triple of  *)
(* the iteration order is visited.                                         *)
C3_FailureIsolated ==
    (Ran /\ result.status # "returned_none" /\ ~feather_configs_list.none) =>
        result.visited = Triples(Handler)

\* The stages of the events of s about one triple never step back in StageOrder.
InStageOrder(s) ==
    \A i, j \in DOMAIN s :
        (i < j /\ s[i].triple = s[j].triple) =>
            StageIndex(s[i].stage) <= StageIndex(s[j].stage)

(* C4: within a pass, the stages entered, logged and called for a triple   *)
(* follow the fixed stage order: none comes after a later-listed one.      *)
C4_StageOrder ==
    /\ InStageOrder(result.entered)
    /\ InStageOrder(result.log)
    /\ InStageOrder(result.calls)

C4_Witness ==
    /\ result.status = "done"
    /\ \E i, j \in DOMAIN result.calls :
          /\ i < j
          /\ result.calls[i].triple = result.calls[j].triple
          /\ result.calls[i].stage # result.calls[j].stage

\* The toggle each public entry point is to enable.
EntryToggle ==
    [stage_interferometer_data |-> "stage", primary_beam_correct |-> "pbcorr",
     convolve_to_round_beam |-> "round", stage_sd_data |-> "sd",
     feather |-> "feather", compress |-> "compress", convert |-> "convert",
     export |-> "export"]

(* C5: a stage is entered, logged or called only if its toggle is enabled; *)
(* with no toggle enabled no transform is called; each public entry point  *)
(* enables exactly its own toggle.                                         *)
C5_OnlyEnabledStages ==
    /\ \A e \in StageEvents : e.stage \in args.tog
    /\ args.tog = {} => result.calls = <<>>
    /\ op \in DOMAIN EntryToggle => args.tog = {EntryToggle[op]}

C5_Witness ==
    op = "feather" /\ result.status = "done" /\ result.calls # <<>>

(* C6: the mosaic-convolve, mosaic-align and mosaic-combine stages are     *)
(* entered only for an interferometric configuration of a linear mosaic    *)
(* target; cmr.common_res_for_mosaic is never called for another target.   *)
C6_MosaicStagesNeedMosaic ==
    /\ \A e \in StageEvents :
          e.stage \in {"conv_for_mosaic", "align_for_mosaic", "linmos"} =>
              e.triple.target \in linmos /\ e.triple.config_type = "interf"
    /\ \A i \in DOMAIN result.calls :
          result.calls[i].fn = "cmr.common_res_for_mosaic" =>
              result.calls[i].triple.target \in linmos

C6_Witness ==
    /\ result.status = "done"
    /\ \E e \in StageEvents : e.stage = "linmos"
    /\ \E e \in StageEvents : e.stage = "align_for_mosaic"

(* C7: a transform is called only when the files it reads are present.     *)
C7_InputsExist ==
    \A i \in DOMAIN result.calls : result.calls[i].present

\* In the calls of the last pass, a call of fn2 for a triple reads, as its
\* k-th input, the file a call of fn1 for the same triple wrote.
Feeds(fn1, fn2, k) ==
    \A i, j \in DOMAIN result.calls :
        (/\ result.calls[i].triple = result.calls[j].triple
         /\ result.calls[i].fn = fn1 /\ result.calls[j].fn = fn2) =>
            result.calls[j].ins[k] = result.calls[i].out

(* C8: the stages of a triple form a chain, each reading what the one      *)
(* before wrote, and every tag a stage looks up is defined by _fname_dict  *)
(* (no lookup raises KeyError).                                            *)
C8_StageChain ==
    Ran =>
        /\ result.status # "KeyError"
        /\ \A s \in DOMAIN StageTags : \A k \in DOMAIN StageTags[s] :
              StageTags[s][k] \in DOMAIN fname_dict(sd, 1, "12m", "co21")
        /\ Feeds("ccr.primary_beam_correct", "ccr.convolve_to_round_beam", 1)
        /\ Feeds("ccr.convolve_to_round_beam", "cfr.prep_sd_for_feather", 2)
        /\ Feeds("ccr.convolve_to_round_beam", "cfr.feather_two_cubes", 1)
        /\ Feeds("ccr.convolve_to_round_beam", "ccr.trim_cube", 1)
        /\ Feeds("ccr.trim_cube", "ccr.convert_jytok", 1)
        /\ \A i \in DOMAIN result.calls :
              result.calls[i].fn = "cfr.feather_two_cubes" =>
                  LET tr == result.calls[i].triple
                  IN  result.calls[i].out =
                        PostprocessDir(
                          fname_dict(sd, tr.target,
                                     get_feather_config_for_interf_config(tr.config),
                                     tr.product)["pbcorr_round"])

(* C9: every transform is called with overwrite=True, and making the same  *)
(* call again on the file system a pass left changes no file and ends as   *)
(* the pass did (the image engine raising in neither).                     *)
C9_Idempotent ==
    /\ \A i \in DOMAIN result.calls : result.calls[i].overwrite
    /\ (Ran /\ args.failAt = 0) =>
          LET again == master_loop(Handler, args, fs)
          IN  again.fs = fs /\ again.status = result.status

C9_Witness ==
    /\ Ran /\ ~args.dry /\ args.failAt = 0 /\ result.status = "done"
    /\ \E i \in DOMAIN result.calls :
          /\ result.calls[i].stage = "round"
          /\ result.calls[i].present
          /\ result.calls[i].out \in DOMAIN before
    /\ result.fs = before

----------------------------------------------------------------------------
(* Properties of estimate_noise.                                           *)

\* estimate_noise has returned from a call with data, a mask and a valid
\* method.
MaskedCall ==
    /\ noise # NotCalled
    /\ ~data.none /\ ~mask.none /\ method \in valid_methods

\* The mask and the data differ in length.
Mismatched == Len(mask.v) # Len(data.v)

\* The mask fits the data and selects nothing.
AllFalse ==
    /\ Len(mask.v) = Len(data.v)
    /\ \A i \in DOMAIN mask.v : ~mask.v[i]

\* C10, as stated: with an all-false mask or a mask of another length than
\* the data, estimate_noise returns the same "no valid data" result, NaN,
\* for every valid method.
C10_SameSignal ==
    (MaskedCall /\ (Mismatched \/ AllFalse)) => noise = ReturnNaN

\* C10, amended: for every valid method, estimate_noise returns NaN for an
\* all-false mask of the data's length and None for a mask of another
\* length; in neither case does it return a number.
C10_NoValidData ==
    MaskedCall =>
        /\ Mismatched => noise = ReturnNone
        /\ AllFalse => noise = ReturnNaN
        /\ (Mismatched \/ AllFalse) => noise.kind # "value"

\* A call with the Chauvenet method on finite data that an all-false mask
\* of the same length hides completely.
C10_Witness ==
    /\ MaskedCall /\ AllFalse
    /\ Len(data.v) >= 2
    /\ \A i \in DOMAIN data.v : data.v[i].fin
    /\ method = "chauvmad"
    /\ noise = ReturnNaN

\* a is b with some elements left out.
RECURSIVE IsSubsequence(_, _)
IsSubsequence(a, b) ==
    IF a = <<>> THEN TRUE
    ELSE IF b = <<>> THEN FALSE
    ELSE IF Head(a) = Head(b) THEN IsSubsequence(Tail(a), Tail(b))
    ELSE IsSubsequence(a, Tail(b))

\* estimate_noise has returned from a call that entered the Chauvenet loop.
ChauvenetCall ==
    /\ noise # NotCalled
    /\ method \in {"chauv", "chauvmad"}
    /\ survivors # <<>>

\* range(niter) of the call: the number of iterations the loop may make.
MaxIterations ==
    IF niter.none THEN DefaultNiter ELSE IF niter.v < 0 THEN 0 ELSE niter.v

\* The dispersion the loop computes over s is zero.
ZeroDispersion(s) ==
    IF method = "chauv" THEN np_std(s).num = 0 ELSE mad(s, TRUE).num = 0

----------------------------------------------------------------------------
(* Properties of signal_mask.                                              *)

\* signal_mask has returned from a call on an image that exists.
MaskCall == call.fn = "signal_mask" /\ ret # NotReturned /\ call.has_image

\* Every element set in mask a is set in mask b.
MaskSubset(a, b) ==
    \A x \in DOMAIN a : \A c \in DOMAIN a[x] : a[x][c] => b[x][c]

(* C12: for the same cube, the mask signal_mask writes with low_snr below  *)
(* high_snr (the dilated mask) contains the mask it writes with low_snr    *)
(* equal to high_snr (the high-threshold elements and their two channel    *)
(* neighbours, wrapping at the ends of the spectrum).                      *)
C12_LowerThresholdGrows ==
    (MaskCall /\ call.operation = "NEW" /\ call.low_snr < call.high_snr) =>
        LET other == signal_mask([call EXCEPT !.low_snr = call.high_snr])
        IN  (ret.kind = "written" /\ other.kind = "written") =>
                MaskSubset(other.mask_file, ret.mask_file)

(* C13: with operation AND or OR and no previous mask, signal_mask ends as *)
(* the same call with operation NEW does, writing the same mask, and reads *)
(* no previous mask.                                                       *)
C13_FallsBackToNew ==
    (MaskCall /\ call.operation \in {"AND", "OR"} /\ call.old_mask = NoMask) =>
        /\ ret = signal_mask([call EXCEPT !.operation = "NEW"])
        /\ ~ret.read_old

\* A call with operation AND and no previous mask that wrote a mask with an
\* element set.
C13_Witness ==
    /\ MaskCall /\ call.operation = "AND" /\ call.old_mask = NoMask
    /\ ret.kind = "written"
    /\ \E x \in DOMAIN ret.mask_file : \E c \in DOMAIN ret.mask_file[x] :
          ret.mask_file[x][c]

----------------------------------------------------------------------------
(* Properties of the mosaic routines.                                      *)

\* common_res_for_mosaic has returned.
ResCall == call.fn = "common_res_for_mosaic" /\ ret # NotReturned

\* The call names input files that exist, with headers in the expected
\* units, and output files that match them if it is to convolve.
ValidResCall ==
    /\ ~call.infile_list.none
    /\ call.infile_list.v # <<>>
    /\ Range(call.infile_list.v) \subseteq DOMAIN call.files
    /\ \A f \in Range(call.infile_list.v) :
          call.files[f].axisunit = "rad" /\ call.files[f].beamunit = "arcsec"
    /\ call.do_convolve => outfile_dict(call.infile_list.v, call.outfile_list).ok

MaxOf(S) == CHOOSE x \in S : \A y \in S : y <= x

(* C14: without a target_res, the square of what common_res_for_mosaic     *)
(* returns is max(beam)^2 + (pixel_padding * max(pixel))^2, each maximum   *)
(* taken over all input cubes on its own; for two cubes of the same beam   *)
(* and pixel and the default padding that is beam^2 + (2*pixel)^2; and the *)
(* result is no smaller than any input beam.                               *)
C14_CommonResolution ==
    (ResCall /\ ValidResCall /\ call.target_res.none) =>
        LET cubes == Range(call.infile_list.v)
            beam == MaxOf({call.files[f].bmaj : f \in cubes})
            pixel == MaxOf({PixelInArcsec(call.files[f].incr) : f \in cubes})
        IN  /\ ret.kind = "value"
            /\ ret.sq = beam * beam
                        + (call.pixel_padding * pixel) * (call.pixel_padding * pixel)
            /\ \A f \in cubes : ret.sq >= call.files[f].bmaj * call.files[f].bmaj
            /\ (/\ call.pixel_padding = DefaultPadding
                /\ \A f \in cubes :
                      /\ call.files[f].bmaj = beam
                      /\ PixelInArcsec(call.files[f].incr) = pixel) =>
                  ret.sq = beam * beam + (2 * pixel) * (2 * pixel)

\* Two cubes, the first with the larger beam and the second with the larger
\* pixel.
C14_Witness ==
    /\ ResCall /\ ValidResCall /\ call.target_res.none
    /\ call.infile_list.v = <<"a", "b">>
    /\ call.files["a"].bmaj > call.files["b"].bmaj
    /\ PixelInArcsec(call.files["a"].incr) < PixelInArcsec(call.files["b"].incr)
    /\ ret.kind = "value"

(* C15: with a target_res, common_res_for_mosaic returns exactly           *)
(* target_res, reading no header, for every valid input list.              *)
C15_TargetResOverrides ==
    (ResCall /\ ~call.target_res.none /\ ValidResCall) =>
        /\ ret.kind = "value"
        /\ ret.sq = call.target_res.v * call.target_res.v
        /\ ret.read = {}

\* mosaic_aligned_data has combined the cubes of the call.
Combined == call.fn = "mosaic_aligned_data" /\ ret # NotReturned /\ ret.kind = "done"

\* The i-th cube and the i-th weight map of the call.
CubeOf(i) == call.files[call.infile_list.v[i]]
WeightOf(i) == call.files[call.weightfile_list.v[i]]

\* The sum over the cubes of data * weight^2 at pixel p, from cube i on.
RECURSIVE WeightedSum(_, _)
WeightedSum(p, i) ==
    IF i > Len(call.infile_list.v) THEN 0
    ELSE CubeOf(i)[p] * WeightOf(i)[p] * WeightOf(i)[p] + WeightedSum(p, i + 1)

\* The sum over the cubes of weight^2 at pixel p, from cube i on.
RECURSIVE WeightSum(_, _)
WeightSum(p, i) ==
    IF i > Len(call.infile_list.v) THEN 0
    ELSE WeightOf(i)[p] * WeightOf(i)[p] + WeightSum(p, i + 1)

\* The call combines two cubes that equal v everywhere with two weight maps
\* that equal w everywhere.
EqualCubes(v, w) ==
    /\ Len(call.infile_list.v) = 2 /\ Len(call.weightfile_list.v) = 2
    /\ \A i \in 1..2 : \A p \in DOMAIN CubeOf(i) :
          CubeOf(i)[p] = v /\ WeightOf(i)[p] = w

(* C16: mosaic_aligned_data computes, at every pixel, the sum over the     *)
(* cubes of data_i * w_i^2 and the sum of w_i^2, cube i going with weight  *)
(* map i; for two cubes equal to v with weights equal to w (nonzero) the   *)
(* output is v and the weight image 2*w^2 everywhere.                      *)
C16_WeightedMean ==
    Combined =>
        /\ \A p \in DOMAIN ret.sum_file :
              /\ ret.sum_file[p] = WeightedSum(p, 1)
              /\ ret.weight_file[p] = WeightSum(p, 1)
        /\ \A v \in {-1, 2}, w \in 1..MaxWeight :
              EqualCubes(v, w) =>
                  \A p \in DOMAIN ret.temp :
                      /\ ret.temp[p].num = v * ret.temp[p].den
                      /\ OutputValid(ret)[p]
                      /\ ret.weight_file[p] = 2 * w * w

\* Two cubes equal to 2 everywhere, combined with weights equal to 2.
C16_Witness ==
    /\ Combined
    /\ EqualCubes(2, 2)
    /\ \A p \in DOMAIN ret.weight_file : ret.weight_file[p] = 8

(* C17: the output of mosaic_aligned_data is valid at a pixel exactly when *)
(* the sum of the squared weights there is positive; there its value is    *)
(* the quotient of the two sums, elsewhere no quotient is taken and the    *)
(* pixel is invalid.                                                       *)
C17_MaskIsPositiveWeight ==
    Combined =>
        \A p \in DOMAIN ret.weight_file :
            /\ OutputValid(ret)[p] <=> ret.weight_file[p] > 0
            /\ OutputValid(ret)[p] =>
                  ret.temp[p] = [num |-> ret.sum_file[p], den |-> ret.weight_file[p]]
            /\ ret.temp[p].den # 0
            /\ (\A i \in DOMAIN call.weightfile_list.v : WeightOf(i)[p] = 0) =>
                  ~OutputValid(ret)[p]

\* A pixel at which every weight map is zero, next to one with weight.
C17_Witness ==
    /\ Combined
    /\ \E p, q \in DOMAIN ret.weight_file :
          /\ \A i \in DOMAIN call.weightfile_list.v : WeightOf(i)[p] = 0
          /\ ~OutputValid(ret)[p]
          /\ OutputValid(ret)[q]

\* generate_weight_file has returned from the call.
WeightCallDone == call.fn = "generate_weight_file" /\ ret # NotReturned

\* The weight the call asks for at a pixel whose source value is x.
ExpectedWeight(x) ==
    LET w == WeightTransform(call.input_type,
                 IF call.input_file = "None" THEN call.input_value.v ELSE x)
    IN  IF call.scale_by_factor.none THEN w
        ELSE Rat(w.num * call.scale_by_factor.v, w.den)

\* The image the call takes its pixels from.
WeightSource == IF call.input_file = "None" THEN call.image_file ELSE call.input_file

(* C18: the image generate_weight_file writes holds, at every pixel, the   *)
(* literal value (or the pixel of the input cube) squared for 'pb', its    *)
(* inverse square for 'noise' and the value itself for 'weight', times     *)
(* scale_by_factor when one is given.                                      *)
C18_WeightValues ==
    (WeightCallDone /\ ret.kind = "done" /\ call.outfile # WeightSource) =>
        \A p \in DOMAIN ret.files[call.outfile] :
            RatEq(Rat(ret.files[call.outfile][p], 1),
                  ExpectedWeight(call.files[WeightSource][p]))

\* The images the call names as its sources.
WeightSources == {call.input_file, call.image_file} \cap DOMAIN call.files

(* C19: generate_weight_file leaves the input cube and the template image  *)
(* on disk with their contents, whatever overwrite and outfile are, and    *)
(* changes no file when outfile exists and overwrite is False.             *)
C19_SourceUntouched ==
    WeightCallDone =>
        /\ \A s \in WeightSources :
              s \in DOMAIN ret.files /\ ret.files[s] = call.files[s]
        /\ (call.outfile \in DOMAIN call.files /\ ~call.overwrite) =>
              ret.files = call.files

\* build_common_header has returned from the call.
HeaderCallDone == call.fn = "build_common_header" /\ ret # NotReturned

\* The call gives both extents, from which the axis sizes follow.
ExtentsGiven == ~call.delta_ra.none /\ ~call.delta_dec.none

(* C20: with allow_big_image False a header that build_common_header       *)
(* returns has both axis sizes at most too_big_pix, and no header is       *)
(* returned when ceil(extent / pixel) exceeds too_big_pix on either axis.  *)
C20_GridWithinLimit ==
    (HeaderCallDone /\ ~call.allow_big_image) =>
        /\ ret.kind = "header" =>
              /\ ret.shap[1] <= call.too_big_pix
              /\ ret.shap[2] <= call.too_big_pix
        /\ (/\ ExtentsGiven
            /\ \/ Ceil(call.delta_ra.v, Abs(call.cdelt[1])) > call.too_big_pix
               \/ Ceil(call.delta_dec.v, Abs(call.cdelt[2])) > call.too_big_pix) =>
              ret.kind # "header"

\* With the default limit and an RA axis of one pixel, a Dec axis of more
\* than 10000 pixels is refused.
C20_Witness ==
    /\ HeaderCallDone /\ ~call.allow_big_image
    /\ call.too_big_pix = DefaultTooBigPix
    /\ ExtentsGiven /\ ~call.ra_ctr.none
    /\ call.delta_ra.v = 1
    /\ Ceil(call.delta_dec.v, Abs(call.cdelt[2])) > DefaultTooBigPix
    /\ call.units = <<"rad", "rad">> /\ call.template_file = "t"
    /\ ret = NoHeader("None")

\* calculate_mosaic_extent has returned from the call.
ExtentCallDone == call.fn = "calculate_mosaic_extent" /\ ret # NotReturned

\* The extent calculate_mosaic_extent computes for the files of a call of
\* build_common_header.
ComputedExtent ==
    calculate_mosaic_extent(call.infile_list, call.ra_ctr, call.dec_ctr,
                            call.images, call.namespace)

\* A call of build_common_header on the cube "a" alone, with neither centre
\* nor extent given, in a namespace that supplies imval.
GridFromStack ==
    /\ HeaderCallDone
    /\ call.infile_list = List(<<"a">>) /\ call.template_file \in {"None", "t"}
    /\ call.ra_ctr.none /\ call.dec_ctr.none
    /\ call.delta_ra.none /\ call.delta_dec.none
    /\ call.units = <<"rad", "rad">> /\ call.allow_big_image
    /\ "imval" \in call.namespace

(* C21: for one symmetric cube calculate_mosaic_extent returns the cube's   *)
(* own centre, and build_common_header called on the file list with        *)
(* neither centre nor extent builds a header whose reference value is that *)
(* centre and whose axis sizes are ceil(computed extent / pixel scale).    *)
C21_GridRoundTrips ==
    /\ (/\ ExtentCallDone /\ ret.kind = "dict"
        /\ call.infile_list = List(<<"a">>)
        /\ call.force_ra_ctr.none /\ call.force_dec_ctr.none) =>
          LET c == call.images["a"].corners
          IN  /\ 2 * ret.ra_ctr.num = ret.ra_ctr.den * RadToDeg(c[1][1] + c[3][1]).num
              /\ 2 * ret.dec_ctr.num = ret.dec_ctr.den * RadToDeg(c[1][2] + c[3][2]).num
    /\ GridFromStack =>
          /\ ret.kind = "header"
          /\ ret.crval = <<InRad(10), InRad(60)>>
          /\ ret.shap =
                <<Ceil(ComputedExtent.delta_ra.num,
                       ComputedExtent.delta_ra.den * Abs(call.cdelt[1])),
                  Ceil(ComputedExtent.delta_dec, Abs(call.cdelt[2]))>>

\* estimate_noise called with a method it does not know returns None and
\* has formed no set of values to estimate from.
InvalidMethodNoResult ==
    (noise # NotCalled /\ method \notin valid_methods) =>
        noise = ReturnNone /\ survivors = <<>>

(* C22: an invalid enumerated option gives no result and no side effect:   *)
(* generate_weight_file with an input_type other than pb, noise, weight    *)
(* returns None with every file as it was, whether the weight comes from   *)
(* an input file or a literal value, and estimate_noise with an unknown    *)
(* method returns None without an estimate.                                *)
C22_InvalidOptionNoEffect ==
    /\ InvalidMethodNoResult
    /\ (WeightCallDone /\ call.input_type \notin valid_types) =>
          ret.kind = "None" /\ ret.files = call.files

\* common_astrometry_for_mosaic has returned from the call.
AstrometryCallDone == call.fn = "common_astrometry_for_mosaic" /\ ret # NotReturned

\* No header was supplied and build_common_header built none.
HeaderRejected ==
    call.target_hdr.kind = "None" /\ build_common_header(call).kind # "header"

(* C23: when no target header is supplied and build_common_header rejects, *)
(* common_astrometry_for_mosaic calls casa.imregrid not once, and every    *)
(* call of casa.imregrid it makes has a header as its template.            *)
C23_RejectionStopsAlignment ==
    AstrometryCallDone =>
        /\ HeaderRejected => ret.regrids = <<>>
        /\ \A k \in DOMAIN ret.regrids : ret.regrids[k].template.kind = "header"

\* A precondition of the call of common_res_for_mosaic fails: an input file
\* is missing, the output files it is to convolve to do not match the input
\* files, or an input cube has axis units other than radians or beam units
\* other than arcseconds.
PreconditionFails ==
    /\ ~call.infile_list.none
    /\ \/ ~(Range(call.infile_list.v) \subseteq DOMAIN call.files)
       \/ call.do_convolve /\ ~outfile_dict(call.infile_list.v, call.outfile_list).ok
       \/ \E f \in Range(call.infile_list.v) \cap DOMAIN call.files :
             call.files[f].axisunit # "rad" \/ call.files[f].beamunit # "arcsec"

\* The calls of casa.imsmooth are one per input file, in order, each to the
\* output file paired with its input file.
SmoothedPairwise ==
    /\ Len(ret.smoothed) = Len(call.infile_list.v)
    /\ \A i \in DOMAIN ret.smoothed :
          /\ ret.smoothed[i].imagename = call.infile_list.v[i]
          /\ ret.smoothed[i].outfile =
                Lookup(outfile_dict(call.infile_list.v, call.outfile_list).dict,
                       call.infile_list.v[i])

\* A call whose precondition fails yields no value and convolves nothing.
NoActionOnFailure ==
    (ResCall /\ PreconditionFails) => (ret.kind # "value" /\ ret.smoothed = <<>>)

(* C24: common_res_for_mosaic validates before it acts: when a             *)
(* precondition fails it returns None having called casa.imsmooth not      *)
(* once, and it calls casa.imsmooth only for a call whose every input cube *)
(* is valid, once per input file and to the output paired with it.         *)
C24_ValidatesBeforeActing ==
    ResCall =>
        /\ PreconditionFails => (ret.kind = "None" /\ ret.smoothed = <<>>)
        /\ ret.smoothed # <<>> => (ValidResCall /\ SmoothedPairwise)

\* The triples of the handler's lists in the order of the three loops,
\* without those of a product that is None.
ExpectedVisits == SelectSeq(Triples(Handler), LAMBDA tr : tr.product # "None")

IsPrefix(s, t) == Len(s) <= Len(t) /\ \A i \in DOMAIN s : s[i] = t[i]

\* The place of a triple in the order of the loops.
TripleIndex(tr) == CHOOSE i \in DOMAIN Triples(Handler) : Triples(Handler)[i] = tr

\* The events of a sequence come triple by triple, in the order of the loops.
TripleByTriple(events) ==
    \A i, j \in DOMAIN events :
        i < j => TripleIndex(events[i].triple) <= TripleIndex(events[j].triple)

\* The last pass went through the triples in the order of the loops, each
\* once, up to the triple at which it ended.
VisitsInOrder ==
    Ran =>
        /\ IsPrefix(result.visited, ExpectedVisits)
        /\ result.status = "done" => result.visited = ExpectedVisits
        /\ TripleByTriple(result.entered)
        /\ TripleByTriple(result.log)
        /\ TripleByTriple(result.calls)

(* C25: _master_loop visits the triples one after the other and each       *)
(* exactly once: targets in list order, line products before continuum     *)
(* products, interferometric configurations before feather ones; the       *)
(* actions of one triple precede those of the next, and no combination of  *)
(* the lists is visited twice or left out.                                 *)
C25_EachTripleOnce ==
    (Ran /\ result.status # "returned_none") =>
        /\ result.visited = ExpectedVisits
        /\ TripleByTriple(result.entered)
        /\ TripleByTriple(result.log)
        /\ TripleByTriple(result.calls)

\* The handler holds a target, a product and an interferometric
\* configuration, and a list of feather configurations.
ListsNonEmpty ==
    /\ ~targets_list.none /\ Len(targets_list.v) > 0
    /\ ~interf_configs_list.none /\ Len(interf_configs_list.v) > 0
    /\ ~feather_configs_list.none
    /\ ExpectedVisits # <<>>

(* C26: whatever the twelve toggles and the dry-run setting, with lists    *)
(* that are not empty and an image engine that raises nowhere,             *)
(* _master_loop returns normally after the last triple: no enabled stage   *)
(* reaches an unbound name, an undefined tag or an argument its            *)
(* collaborator does not take.                                             *)
C26_LoopTerminatesNormally ==
    (Ran /\ args.failAt = 0 /\ ListsNonEmpty) =>
        /\ result.status = "done"
        /\ result.visited = ExpectedVisits

\* The triple is one the feather block applies to: an interferometric
\* configuration with single dish data and imaging when the pass began.
Applicable(tr) ==
    LET cx == Gates([fs |-> before], Handler, tr)
    IN  cx.config_type = "interf" /\ cx.has_sd /\ cx.has_imaging

\* The calls of cfr.feather_two_cubes the last pass made for a triple.
FeatherCallsOf(tr) ==
    {i \in DOMAIN result.calls :
        /\ result.calls[i].triple = tr
        /\ result.calls[i].fn = "cfr.feather_two_cubes"}

\* A live pass of the feather stage alone, the image engine raising nowhere.
LiveFeatherPass ==
    Ran /\ ~args.dry /\ args.failAt = 0 /\ args.tog = {"feather"}

\* The last pass made one call of cfr.feather_two_cubes for each triple the
\* feather block applies to.
FeatherOncePerTriple ==
    \A tr \in Range(ExpectedVisits) :
        Applicable(tr) => Cardinality(FeatherCallsOf(tr)) = 1

(* C27: the feather method the handler stores is always 'pbcorr' or        *)
(* 'apodize', set_feather_method storing these two and refusing any other; *)
(* and whatever calls of set_feather_method came before, a live feather    *)
(* stage calls cfr.feather_two_cubes exactly once for each triple of an    *)
(* interferometric configuration with single dish data and imaging.        *)
C27_FeatherMethodValid ==
    /\ feather_method \in {"pbcorr", "apodize"}
    /\ (LiveFeatherPass /\ ListsNonEmpty) => FeatherOncePerTriple

----------------------------------------------------------------------------
(* Properties of the filter setters.                                       *)

\* Each derived list is the key handler's answer to the stored filters of
\* its kind; the line and continuum lists are empty when their toggle is set.
ListsFollowFilters ==
    /\ targets_list = List(get_targets(kh.v, filters.targets))
    /\ mosaics_list = List(get_linmos_targets(kh.v, filters.mosaics))
    /\ line_products_list =
           List(IF no_line THEN <<>> ELSE get_line_products(kh.v, filters.lines))
    /\ cont_products_list =
           List(IF no_cont THEN <<>> ELSE get_continuum_products(kh.v, filters.cont))
    /\ interf_configs_list = List(get_interf_configs(kh.v, filters.interf_configs))
    /\ feather_configs_list = List(get_feather_configs(kh.v, filters.feather_configs))

\* The line list is empty exactly when no_line is set or the key handler
\* returns no line product, and likewise the continuum list.
EmptyExactlyWhenToggled ==
    /\ line_products_list = List(<<>>)
           <=> (no_line \/ get_line_products(kh.v, filters.lines) = <<>>)
    /\ cont_products_list = List(<<>>)
           <=> (no_cont \/ get_continuum_products(kh.v, filters.cont) = <<>>)

\* The stored settings a step changes: kinds of filter, toggles, key handler.
ChangedSettings ==
    {k \in Kinds : filters'[k] # filters[k]}
    \cup (IF no_line' # no_line THEN {"no_line"} ELSE {})
    \cup (IF no_cont' # no_cont THEN {"no_cont"} ELSE {})
    \cup (IF kh' # kh THEN {"kh"} ELSE {})

\* A setter changes the stored settings of its own kind only.
OneKindPerSetter == Cardinality(ChangedSettings) <= 1

\* C28 as stated: after any sequence of setter calls without nobuild every
\* derived list equals what the key handler returns for the stored filters
\* of its kind, the line (continuum) list is empty exactly when no_line
\* (no_cont) is set or the key handler returns none, and a setter leaves
\* the stored filters of every other kind unchanged.
C28_ListsFollowSetters ==
    /\ [](ListsFollowFilters /\ EmptyExactlyWhenToggled)
    /\ [][OneKindPerSetter]_vars

\* C28, amended: the same while the handler holds a key handler; without
\* one (set_key_handler(None)) the setters store their filters and the
\* lists stay as they were.
C28_ListsFollowSettersWithKeyHandler ==
    /\ [](~kh.none => (ListsFollowFilters /\ EmptyExactlyWhenToggled))
    /\ [][OneKindPerSetter]_vars

\* Witness of C28: a handler with a key handler whose line list was emptied
\* by no_line although the line filter selects co21, and whose target list
\* follows only=[1].
C28_Witness ==
    /\ ~kh.none
    /\ no_line /\ filters.lines.only = <<"co21">>
    /\ line_products_list = List(<<>>)
    /\ filters.targets.only = <<1>> /\ targets_list = List(<<1>>)
    /\ ~no_cont /\ cont_products_list = List(<<"cont">>)

----------------------------------------------------------------------------
(* Properties of calculate_mosaic_extent.                                  *)

\* The corners of every cube of the call, as <<RA, Dec>>.
AllCorners ==
    UNION {Range(call.images[f].corners) : f \in Range(call.infile_list.v)}

Largest(S) == CHOOSE x \in S : \A y \in S : y <= x
Smallest(S) == CHOOSE x \in S : \A y \in S : x <= y

\* The separation of a corner coordinate from a returned centre (a rational
\* number of degrees), in arcseconds times the centre's denominator.
Separation(coord, ctr) == 1800 * Abs(coord * ctr.den - 2 * ctr.num)

\* The largest separation of a corner from the returned centre on an axis.
LargestSeparation(axis, ctr) ==
    Largest({Separation(c[axis], ctr) : c \in AllCorners})

\* The cosine of the returned centre declination.
CosCentre == np_cos(DegToRad(ret.dec_ctr.num \div ret.dec_ctr.den))

\* The returned centre on an axis is the midpoint of the extreme corners.
IsMidpoint(axis, ctr) ==
    2 * 2 * ctr.num =
        ctr.den * (Smallest({c[axis] : c \in AllCorners})
                   + Largest({c[axis] : c \in AllCorners}))

\* calculate_mosaic_extent has returned an extent.
ExtentReturned == ExtentCallDone /\ ret.kind = "dict"

----------------------------------------------------------------------------
(* Properties of the driver script.                                        *)

\* The script has run.
DriverDone == call.fn = "process_cubes" /\ ret # NotReturned

\* The position of a galaxy in the galaxy list.
Position(gal) == CHOOSE i \in DOMAIN call.gal_part_list : call.gal_part_list[i] = gal

\* The galaxy passes the filters of the run.
PassesFilters(gal) ==
    /\ call.only # {} => gal \in call.only
    /\ gal \notin call.skip
    /\ call.first # "" => Position(gal) >= Position(call.first)
    /\ call.last # "" => Position(gal) <= Position(call.last)

\* The number of a phase in the order of the script.
PhaseIndex(name) == CHOOSE i \in DOMAIN PhaseLoops : PhaseLoops[i] = name

\* The phases of the processed pairs never step back: every galaxy is
\* through with a phase before any galaxy starts the next.
PhasesInOrder ==
    \A i, j \in DOMAIN ret.processed :
        i < j => PhaseIndex(ret.processed[i].this_loop)
                    <= PhaseIndex(ret.processed[j].this_loop)

\* C30: in each of the five phase loops a galaxy is processed only if it
\* passes the filters only, skip, first and last (the galaxy `last` itself
\* is processed), and the phases run in the order stage, process, feather,
\* mosaic, cleanup, each for all galaxies before the next.
C30_DriverFiltersGalaxies ==
    DriverDone =>
        /\ \A i \in DOMAIN ret.processed : PassesFilters(ret.processed[i].gal)
        /\ PhasesInOrder
        /\ (call.last # "" /\ PassesFilters(call.last)) =>
               \A p \in DOMAIN PhaseLoops :
                   \E i \in DOMAIN ret.processed :
                       ret.processed[i] = [this_loop |-> PhaseLoops[p], gal |-> call.last]

====
